---- MODULE Spec2Model ----
(***************************************************************************)
(* Model of the probabilistic execution engine of echo-ai:                 *)
(*   backend/app/builders/runner.py     RunnerBuilder (run_batch,          *)
(*                                      _run_single_iteration,             *)
(*                                      _execute_with_retry,               *)
(*                                      _send_progress)                    *)
(*   backend/app/builders/providers.py  BaseLLMProvider.generate and the   *)
(*                                      concrete _make_request /           *)
(*                                      _parse_response adapters           *)
(*                                                                         *)
(* One run_batch call is a coroutine that validates its input, builds the  *)
(* provider, schedules N iteration tasks through asyncio.gather and then   *)
(* collects their results.  Every iteration task is a small state machine  *)
(* whose suspension points are the semaphore, the HTTP round trip and the  *)
(* tenacity backoff sleeps.  The upstream provider is the environment: it  *)
(* answers every request with one of the outcomes the adapters             *)
(* distinguish.                                                            *)
(***************************************************************************)
EXTENDS Integers, Sequences, FiniteSets, TLC

(***************************************************************************)
(* Bounds of the exploration.                                              *)
(***************************************************************************)
\* settings.max_iterations, scaled down (the configured default is 100)
MaxIterations == 3
\* largest BatchConfig.max_concurrency explored
MaxConcurrency == 2
\* number of failing provider answers the environment may give in one batch
MaxFaults == 1
\* largest iteration count explored with one iteration failing at will
RetryIterations == 2
\* fault supply that lets one iteration exhaust both retry layers (5 x 5)
RetryFaults == 25
\* the end-to-end scenario: iteration count, gate, failing indices
E2EIterations == 10
E2EConcurrency == 2
E2EAuthAt == {2, 7}
\* longest brand and longest response text matched exhaustively
MaxBrandLen == 2
MaxTextLen == 3
\* largest number of brands and of responses analysed together
MaxBrands == 2
MaxResponses == 2
\* share of voice: largest number of brands and of mentions of one brand
MaxRanked == 3
\* most citations of one response, and most entries of a whitelist
MaxCitations == 2
MaxWhitelist == 2
MaxMentions == 3

(***************************************************************************)
(* Program constants.                                                      *)
(***************************************************************************)
\* stop_after_attempt(5) on BaseLLMProvider.generate
InnerStopAfterAttempt == 5
\* stop_after_attempt(5) on RunnerBuilder._execute_with_retry
OuterStopAfterAttempt == 5
\* default of Settings.max_iterations
DefaultMaxIterations == 100

(***************************************************************************)
(* The provider's answers, as the adapters' _make_request tell them apart. *)
(* timeoutText says whether the text the upstream put in the body (or the  *)
(* transport put in its error) contains the word "timeout"; it ends up in  *)
(* the exception message of the branches that quote that text.             *)
(***************************************************************************)
Kinds ==
  { "ok", "http_429", "http_auth", "http_5xx", "http_other",
    "net_timeout", "net_error", "malformed", "bad_json" }

QuotesUpstreamText(kind) == kind \in {"http_5xx", "http_other", "net_error"}

Responses ==
  { r \in [kind : Kinds, timeoutText : BOOLEAN] :
      r.timeoutText => QuotesUpstreamText(r.kind) }

NoResponse == [kind |-> "none", timeoutText |-> FALSE]

(***************************************************************************)
(* Exceptions: the class and whether str(e).lower() contains "timeout".    *)
(***************************************************************************)
NoException == [cls |-> "none", timeoutText |-> FALSE]

Exc(cls, tt) == [cls |-> cls, timeoutText |-> tt]

\* class hierarchy of providers.py: ProviderServerError derives from
\* ProviderError; everything derives from Exception
IsInstance(cls, base) ==
  \/ cls = base
  \/ base = "Exception" /\ cls # "none"
  \/ base = "ProviderError" /\ cls = "ProviderServerError"

\* _make_request: the exception the status-code ladder and the httpx
\* handlers raise for an answer, NoException when the JSON body is returned
MakeRequestRaises(r) ==
  CASE r.kind = "http_429"    -> Exc("RateLimitError", FALSE)
    [] r.kind = "http_auth"   -> Exc("ProviderAuthError", FALSE)
    [] r.kind = "http_5xx"    -> Exc("ProviderServerError", r.timeoutText)
    [] r.kind = "http_other"  -> Exc("ProviderError", r.timeoutText)
    [] r.kind = "net_timeout" -> Exc("ProviderError", TRUE)
    [] r.kind = "net_error"   -> Exc("ProviderError", r.timeoutText)
    [] r.kind = "bad_json"    -> Exc("ValueError", FALSE)
    [] OTHER                  -> NoException

\* variant of ParseResponseRaises: the parser looks for a key no answer has
ParseResponseRefusesAll(r) ==
  IF r.kind \in {"ok", "malformed"}
    THEN Exc("ProviderError", FALSE) ELSE NoException

\* _parse_response: a 200 answer without choices / output items is refused
ParseResponseRaises(r) ==
  IF r.kind = "malformed" THEN Exc("ProviderError", FALSE) ELSE NoException

\* one attempt of generate's body: _make_request, then _parse_response
AttemptRaises(r) ==
  IF MakeRequestRaises(r) # NoException
    THEN MakeRequestRaises(r)
    ELSE ParseResponseRaises(r)

\* variant of InnerRetryIf: only rate limits are retried
InnerRetryIfRateLimitOnly(e) == IsInstance(e.cls, "RateLimitError")

\* variant of InnerRetryIf: every ProviderError is retried as well
InnerRetryIfAnyProviderError(e) ==
  IsInstance(e.cls, "RateLimitError") \/ IsInstance(e.cls, "ProviderError")

\* retry_if_exception_type((RateLimitError, ProviderServerError)) on generate
InnerRetryIf(e) ==
  IsInstance(e.cls, "RateLimitError") \/ IsInstance(e.cls, "ProviderServerError")

\* variant of OuterRetryIf: the engine retries provider errors instead
OuterRetryIfProviderError(e) == IsInstance(e.cls, "ProviderError")

\* retry_if_exception_type(RateLimitError) on _execute_with_retry
OuterRetryIf(e) == IsInstance(e.cls, "RateLimitError")

\* tenacity: after a failed attempt, try again iff the exception is of a
\* retried type and the stop condition attempt_number >= limit is not met
ShouldRetry(retryable, attempt, limit) == retryable /\ attempt < limit

(***************************************************************************)
(* IterationResult (schemas/runner.py).  response is <<>> for None and     *)
(* otherwise <<i, k>>: the body of the k-th request of iteration i.        *)
(* latency_ms is a difference of two perf_counter() readings of one task;  *)
(* it is kept as what the task was suspended in between the two readings:  *)
(* waits for the gate, provider requests and backoff sleeps.               *)
(***************************************************************************)
NoPayload == << >>

NoLatency == [gate |-> 0, requests |-> 0, sleeps |-> 0]

IterationResult(idx, status, response, err) ==
  [ type            |-> "IterationResult",
    iteration_index |-> idx,
    status          |-> status,
    response        |-> response,
    error           |-> err.cls,
    latency_ms      |-> NoLatency,
    retry_count     |-> 0 ]

NoResult ==
  [ type            |-> "none",
    iteration_index |-> -1,
    status          |-> "none",
    response        |-> NoPayload,
    error           |-> "none",
    latency_ms      |-> NoLatency,
    retry_count     |-> 0 ]

\* the except ladder of _run_single_iteration, in source order
HandlerStatus(e) ==
  IF IsInstance(e.cls, "RateLimitError") THEN "rate_limited"
  ELSE IF IsInstance(e.cls, "ProviderAuthError") THEN "auth_error"
  ELSE IF IsInstance(e.cls, "ProviderError")
    THEN (IF e.timeoutText THEN "timeout" ELSE "failed")
  ELSE IF IsInstance(e.cls, "RetryError") THEN "rate_limited"
  ELSE "failed"

\* variant of SingleIterationResult: the index is the 1-based completed count
SingleIterationResultOneBased(idx, payload, e) ==
  IF e = NoException
    THEN IterationResult(idx + 1, "success", payload, NoException)
    ELSE IterationResult(idx + 1, HandlerStatus(e), NoPayload, e)

\* variant of SingleIterationResult: the success branch leaves response unset
SingleIterationResultOmitsResponse(idx, payload, e) ==
  IF e = NoException
    THEN IterationResult(idx, "success", NoPayload, NoException)
    ELSE IterationResult(idx, HandlerStatus(e), NoPayload, e)

\* the IterationResult _run_single_iteration builds when
\* _execute_with_retry returned (e = NoException) or raised e
SingleIterationResult(idx, payload, e) ==
  IF e = NoException
    THEN IterationResult(idx, "success", payload, NoException)
    ELSE IterationResult(idx, HandlerStatus(e), NoPayload, e)

\* run_batch's loop over the results of gather(..., return_exceptions=True)
ProcessResult(i, result) ==
  IF result.type = "Exception"
    THEN IterationResult(i, "failed", NoPayload, Exc(result.error, FALSE))
  ELSE IF result.type = "IterationResult" THEN result
  ELSE IterationResult(i, "failed", NoPayload, Exc("TypeError", FALSE))

(***************************************************************************)
(* BatchResult (schemas/runner.py).                                        *)
(***************************************************************************)
NoBatchResult ==
  [ created               |-> FALSE,
    iterations            |-> << >>,
    total_iterations      |-> 0,
    successful_iterations |-> 0,
    failed_iterations     |-> 0 ]

\* number of entries of a sequence of IterationResult satisfying a status test
RECURSIVE CountStatus(_, _)
CountStatus(seq, wantSuccess) ==
  IF seq = << >> THEN 0
  ELSE (IF (Head(seq).status = "success") = wantSuccess THEN 1 ELSE 0)
       + CountStatus(Tail(seq), wantSuccess)

\* BatchResult.compute_statistics
compute_statistics(br) ==
  [ br EXCEPT !.total_iterations      = Len(br.iterations),
              !.successful_iterations = CountStatus(br.iterations, TRUE),
              !.failed_iterations     = CountStatus(br.iterations, FALSE) ]

\* BatchResult.raw_responses: the payloads of the successful iterations
RECURSIVE raw_responses(_)
raw_responses(seq) ==
  IF seq = << >> THEN << >>
  ELSE (IF Head(seq).status = "success" /\ Head(seq).response # NoPayload
          THEN << Head(seq).response >> ELSE << >>)
       \o raw_responses(Tail(seq))

(***************************************************************************)
(* asyncio.Semaphore as `async with self._semaphore` uses it: a counter    *)
(* and a FIFO of waiters; release hands the slot to the oldest waiter,     *)
(* which holds it from then on (woken) until it resumes.                   *)
(***************************************************************************)
Semaphore(n) == [value |-> n, waiters |-> << >>, woken |-> {}]

\* Semaphore.locked()
Locked(sem) == sem.value = 0 \/ sem.waiters # << >>

\* variant of Release: the slot is not given back
ReleaseKeepsSlot(sem) == sem

\* Semaphore.release(): value += 1, then _wake_up_next() takes the slot for
\* the first waiter that has not been woken yet
Release(sem) ==
  LET pending == SelectSeq(sem.waiters, LAMBDA w : w \notin sem.woken)
  IN  IF pending = << >>
        THEN [sem EXCEPT !.value = @ + 1]
        ELSE [sem EXCEPT !.woken = @ \cup {Head(pending)}]

\* the Semaphore(10) the constructor installs
DefaultGate == 10

\* variant of GateSize: the constructor's semaphore is kept
GateSizeStale(config_max_concurrency) == DefaultGate

\* the initial value of the gate run_batch installs
GateSize(config_max_concurrency) == config_max_concurrency

(***************************************************************************)
(* State.                                                                  *)
(***************************************************************************)
VARIABLES
  iterations,         \* config.iterations of the call
  max_concurrency,    \* config.max_concurrency of the call
  max_iterations,     \* settings.max_iterations
  api_key,            \* whether the provider's API key is configured
  progress_callback,  \* "none", "ok" or "raises"
  upstream,           \* what the provider may answer:
                      \*   budget: failing answers it may give in all,
                      \*   faulty: iterations whose requests may fail,
                      \*   authAt: iterations it always answers with 401
  rb_pc,              \* position of run_batch
  rb_error,           \* exception run_batch raised, "none" otherwise
  provider,           \* "none" or "constructed" (get_provider)
  client,             \* provider._client: "none" or "open"
  clientsCreated,     \* httpx.AsyncClient constructions
  clientsClosed,      \* aclose() calls
  semaphore,          \* self._semaphore
  task,               \* the iteration tasks handed to gather, by index
  faults,             \* failing answers given so far
  notifications,      \* RunnerProgress objects handed to the callback
  batch_result,       \* the BatchResult of the call
  target_brands,      \* analyze_batch: the brands, the primary target first
  response_texts,     \* analyze_batch: the texts of the successful responses
  all_visibility,     \* the VisibilityMetrics list, one entry per brand
  analysis_result,    \* what the analysis returned
  llm_provider,       \* analyze_batch: batch_result.provider
  domain_whitelist,   \* analyze_batch: the trusted domains, or None
  citations,          \* the citation URLs of each successful response
  compared,           \* the response pairs _compute_consistency compared
  database,           \* the committed rows: the user's counters and the
                      \*   experiment
  session,            \* the request's database session: current_user's
                      \*   counter, the experiment row as the transaction
                      \*   sees it, and what is not committed yet
  request,            \* the create_experiment request
  worker,             \* the execute_experiment task
  calls,              \* two run_batch calls on one RunnerBuilder: position
                      \*   and BatchConfig of each
  gates,              \* the Semaphore objects of that instance, by the call
                      \*   that created them (0: the constructor)
  instance_semaphore, \* the object self._semaphore refers to
  jobs,               \* the iteration tasks of the two calls
  ready               \* the event loop's queue of ready handles

vars ==
  << iterations, max_concurrency, max_iterations, api_key, progress_callback,
     upstream, rb_pc, rb_error, provider, client, clientsCreated,
     clientsClosed, semaphore, task, faults, notifications, batch_result,
     target_brands, response_texts, all_visibility, analysis_result,
     llm_provider, domain_whitelist, citations, compared,
     database, session, request, worker,
     calls, gates, instance_semaphore, jobs, ready >>

platform_vars == << database, session, request, worker >>

analysis_vars ==
  << target_brands, response_texts, all_visibility, analysis_result,
     llm_provider, domain_whitelist, citations, compared >>

overlap_vars == << calls, gates, instance_semaphore, jobs, ready >>

\* what run_batch leaves alone
other_vars == << platform_vars, analysis_vars, overlap_vars >>

NoAnalysis == [type |-> "none"]

None == [type |-> "None"]

\* the domain_whitelist argument: None, or a list of domains
NoWhitelist == [given |-> FALSE, domains |-> << >>]

WhitelistOf(domains) == [given |-> TRUE, domains |-> domains]

\* no analysis is under way
AnalysisIdle ==
  /\ target_brands = << >>
  /\ response_texts = << >>
  /\ all_visibility = << >>
  /\ analysis_result = NoAnalysis
  /\ llm_provider = "none"
  /\ domain_whitelist = NoWhitelist
  /\ citations = << >>
  /\ compared = << >>

NoExperiment ==
  [status |-> "absent", error_message |-> "none", iterations |-> 0]

NoRequest ==
  [ pc |-> "none", iterations |-> 0, testing_mode |-> FALSE,
    unlimited_prompts |-> FALSE, before |-> 0, status_code |-> 0 ]

IdleWorker ==
  [ pc |-> "idle", loop_running |-> FALSE, error |-> "none",
    user_id |-> FALSE, iterations_count |-> 0 ]

\* no request and no task are under way
PlatformIdle ==
  /\ database = [ prompts_used_this_month |-> 0, monthly_prompt_quota |-> 0,
                  experiment |-> NoExperiment ]
  /\ session = [ prompts_used_this_month |-> 0, experiment |-> NoExperiment,
                 pending |-> {} ]
  /\ request = NoRequest
  /\ worker = IdleWorker

\* no RunnerBuilder is shared between calls
OverlapIdle ==
  /\ calls = << >>
  /\ gates = << >>
  /\ instance_semaphore = 0
  /\ jobs = << >>
  /\ ready = << >>

inputs ==
  << iterations, max_concurrency, max_iterations, api_key, progress_callback,
     upstream >>

Indices == 0 .. (iterations - 1)

AllIndices == 0 .. DefaultMaxIterations

NewTask ==
  [ pc       |-> "created",
    outer    |-> 0,          \* attempt_number of _execute_with_retry
    inner    |-> 0,          \* attempt_number of generate
    gateWaits |-> 0,         \* suspensions in `async with self._semaphore`
    posts    |-> 0,          \* client.post calls of the iteration
    genPosts |-> 0,          \* client.post calls of the current generate call
    genCalls |-> 0,          \* provider.generate calls of the iteration
    genFails |-> 0,          \* failed requests of the current generate call
    only429  |-> TRUE,       \* every answer so far was a 429
    sleeps   |-> 0,          \* backoff sleeps taken by either retry layer
    last     |-> NoResponse, \* the answer to the latest request
    result   |-> NoResult ]

InFlightPcs == {"woken", "requesting", "inner_backoff", "outer_backoff"}

InFlight == { i \in DOMAIN task : task[i].pc \in InFlightPcs }

\* the answers the provider may give to a request of iteration i
Allowed(i) ==
  IF i \in upstream.authAt
    THEN { r \in Responses : r.kind = "http_auth" }
    ELSE { r \in Responses :
             r.kind = "ok" \/ (i \in upstream.faulty /\ faults < upstream.budget) }

InitWith(Ns, Cs, ceiling, keys, callbacks, ups) ==
  /\ iterations \in Ns
  /\ max_concurrency \in Cs
  /\ max_iterations = ceiling
  /\ api_key \in keys
  /\ progress_callback \in callbacks
  /\ upstream \in ups
  /\ rb_pc = "entry"
  /\ rb_error = "none"
  /\ provider = "none"
  /\ client = "none"
  /\ clientsCreated = 0
  /\ clientsClosed = 0
  /\ semaphore = Semaphore(DefaultGate)
  /\ task = << >>
  /\ faults = 0
  /\ notifications = << >>
  /\ batch_result = NoBatchResult

\* every iteration count up to one above the ceiling, with a provider that
\* either fails a bounded number of requests in any way or refuses the
\* credentials on every request
Init ==
  /\ AnalysisIdle
  /\ PlatformIdle
  /\ OverlapIdle
  /\ InitWith(1 .. (MaxIterations + 1), 1 .. MaxConcurrency, MaxIterations,
           BOOLEAN, {"none", "raises"},
           { [budget |-> MaxFaults, authAt |-> {}, faulty |-> AllIndices],
             [budget |-> 0, authAt |-> AllIndices, faulty |-> {}] })

\* a few iterations of which one meets enough failing answers to exhaust
\* both retry layers
InitRetry ==
  /\ AnalysisIdle
  /\ PlatformIdle
  /\ OverlapIdle
  /\ InitWith(1 .. RetryIterations, 1 .. MaxConcurrency, RetryIterations,
           {TRUE}, {"none"},
           { [budget |-> RetryFaults, authAt |-> {}, faulty |-> {k}] :
               k \in 0 .. (RetryIterations - 1) })

\* the end-to-end scenario: E2EIterations iterations under the default
\* ceiling, the provider refuses the credentials on the iterations of
\* E2EAuthAt and answers every other request
InitE2E ==
  /\ AnalysisIdle
  /\ PlatformIdle
  /\ OverlapIdle
  /\ InitWith({E2EIterations}, {E2EConcurrency}, DefaultMaxIterations,
           {TRUE}, {"none"}, {[budget |-> 0, authAt |-> E2EAuthAt, faulty |-> {}]})

\* the loop at the end of Semaphore.acquire(): while slots are free, hand
\* them to waiters that have not been woken
RECURSIVE WakeWhileFree(_)
WakeWhileFree(sem) ==
  LET pending == SelectSeq(sem.waiters, LAMBDA w : w \notin sem.woken)
  IN  IF sem.value > 0 /\ pending # << >>
        THEN WakeWhileFree([sem EXCEPT !.value = @ - 1,
                                       !.woken = @ \cup {Head(pending)}])
        ELSE sem

\* the iterations that hold a slot of the gate
Admitted == InFlight \cup semaphore.woken

(***************************************************************************)
(* run_batch, up to the await of gather.                                   *)
(***************************************************************************)
\* variant of ExceedsCeiling: the comparison is off by one
ExceedsCeilingOffByOne(n, ceiling) == n > ceiling + 1

\* the test `config.iterations > self.settings.max_iterations`
ExceedsCeiling(n, ceiling) == n > ceiling

\* the validation at the top of run_batch
Validate ==
  /\ rb_pc = "entry"
  /\ IF ExceedsCeiling(iterations, max_iterations)
       THEN /\ rb_pc' = "raised"
            /\ rb_error' = "ValueError"
       ELSE /\ rb_pc' = "validated"
            /\ UNCHANGED rb_error
  /\ UNCHANGED << other_vars, inputs, provider, client, clientsCreated, clientsClosed,
                  semaphore, task, faults, notifications, batch_result >>

\* get_provider: the concrete provider's constructor refuses a missing key
GetProvider ==
  /\ rb_pc = "validated"
  /\ IF api_key
       THEN /\ provider' = "constructed"
            /\ rb_pc' = "provider_ready"
            /\ UNCHANGED rb_error
       ELSE /\ rb_pc' = "raised"
            /\ rb_error' = "ProviderAuthError"
            /\ UNCHANGED provider
  /\ UNCHANGED << other_vars, inputs, client, clientsCreated, clientsClosed, semaphore,
                  task, faults, notifications, batch_result >>

\* BatchResult(...), the new semaphore, the shared request, one coroutine
\* per index, and the await of gather
Schedule ==
  /\ rb_pc = "provider_ready"
  /\ batch_result' = [NoBatchResult EXCEPT !.created = TRUE]
  /\ semaphore' = Semaphore(GateSize(max_concurrency))
  /\ task' = [i \in Indices |-> NewTask]
  /\ rb_pc' = "gathering"
  /\ UNCHANGED << other_vars, inputs, rb_error, provider, client, clientsCreated,
                  clientsClosed, faults, notifications >>

(***************************************************************************)
(* _run_single_iteration.                                                  *)
(***************************************************************************)
\* client.post inside _make_request
Post(t) ==
  [t EXCEPT !.pc = "requesting", !.posts = @ + 1, !.genPosts = @ + 1]

\* a call of provider.generate: tenacity's first attempt
CallGenerate(t) ==
  Post([t EXCEPT !.genCalls = @ + 1, !.inner = 1, !.genPosts = 0,
                 !.genFails = 0])

\* the call of _execute_with_retry once the slot is held
Enter(t) == CallGenerate([t EXCEPT !.outer = 1])

\* variant of GetClient: every call builds a new handle
GetClientAlwaysNew ==
  /\ client' = "open"
  /\ clientsCreated' = clientsCreated + 1

\* get_client: the handle is created when there is none
GetClient ==
  IF client = "none"
    THEN /\ client' = "open"
         /\ clientsCreated' = clientsCreated + 1
    ELSE UNCHANGED << client, clientsCreated >>

\* variant of StartsNext: the tasks are started in no particular order
StartsInAnyOrder(i) == TRUE

\* the tasks are built for i in range(iterations) and handed to gather in
\* that order, and the event loop runs their first steps in that order
StartsNext(i) == \A j \in DOMAIN task : j < i => task[j].pc # "created"

\* the task starts: `async with self._semaphore` either takes a free slot
\* and goes on to its first request, or queues.  The event loop starts the
\* tasks of gather in the order they were passed.
Begin(i) ==
  /\ rb_pc = "gathering"
  /\ i \in DOMAIN task
  /\ task[i].pc = "created"
  /\ StartsNext(i)
  /\ IF ~Locked(semaphore)
       THEN /\ semaphore' = [semaphore EXCEPT !.value = @ - 1]
            /\ task' = [task EXCEPT ![i] = Enter(@)]
            /\ GetClient
       ELSE /\ semaphore' = [semaphore EXCEPT !.waiters = Append(@, i)]
            /\ task' = [task EXCEPT ![i].pc = "waiting",
                                    ![i].gateWaits = @ + 1]
            /\ UNCHANGED << client, clientsCreated >>
  /\ UNCHANGED << other_vars, inputs, rb_pc, rb_error, provider, clientsClosed, faults,
                  notifications, batch_result >>

\* a waiter that was handed a slot resumes inside acquire and goes on to its
\* first request.  Slots are handed out in queue order and the event loop
\* resumes the woken waiters in the order they were woken, so the one that
\* resumes is the oldest of the queue.
Resume(i) ==
  /\ rb_pc = "gathering"
  /\ i \in DOMAIN task
  /\ task[i].pc = "waiting"
  /\ i \in semaphore.woken
  /\ i = Head(semaphore.waiters)
  /\ semaphore' =
       WakeWhileFree([semaphore EXCEPT
                        !.waiters = SelectSeq(@, LAMBDA w : w # i),
                        !.woken = @ \ {i}])
  /\ task' = [task EXCEPT ![i] = Enter(@)]
  /\ GetClient
  /\ UNCHANGED << other_vars, inputs, rb_pc, rb_error, provider, clientsClosed, faults,
                  notifications, batch_result >>

\* (perf_counter() - start_time) * 1000 when the result is built: start_time
\* is read at the top of _run_single_iteration, before the task enters
\* `async with self._semaphore`, so the difference covers every suspension
\* of the task up to here
Elapsed(t) ==
  [gate |-> t.gateWaits, requests |-> t.posts, sleeps |-> t.sleeps]

\* the task record after the body of `async with self._semaphore` is left
\* with _execute_with_retry having returned (e = NoException) or raised e
Resolved(i, t, e) ==
  [t EXCEPT !.pc = "resolved",
            !.result = [SingleIterationResult(i, << i, t.posts >>, e)
                          EXCEPT !.latency_ms = Elapsed(t)]]

\* the task record once the answer r to its pending request is in
Answered(t, r) ==
  [t EXCEPT !.last = r,
            !.genFails = IF AttemptRaises(r) = NoException THEN @ ELSE @ + 1,
            !.only429 = @ /\ r.kind = "http_429"]

\* variant of Settle: an authentication failure is raised out of run_batch
\* instead of being recorded
SettleReraisingAuth(i, t, e) ==
  /\ task' = [task EXCEPT ![i] = Resolved(i, t, e)]
  /\ semaphore' = Release(semaphore)
  /\ IF e.cls = "ProviderAuthError"
       THEN /\ rb_pc' = "raised"
            /\ rb_error' = e.cls
       ELSE UNCHANGED << rb_pc, rb_error >>

\* _execute_with_retry is over for iteration i: the try/except builds the
\* result, nothing is raised into gather, and leaving the `async with`
\* releases the slot
Settle(i, t, e) ==
  /\ task' = [task EXCEPT ![i] = Resolved(i, t, e)]
  /\ semaphore' = Release(semaphore)
  /\ UNCHANGED << rb_pc, rb_error >>

\* tenacity sleeps before the next attempt of the layer that retries
Backoff(i, t, layer) ==
  /\ task' = [task EXCEPT ![i] = [t EXCEPT !.pc = layer, !.sleeps = @ + 1]]
  /\ UNCHANGED << semaphore, rb_pc, rb_error >>

\* gather schedules the first step of every task while run_batch runs, so
\* the event loop runs all of them, in one pass, before it handles the
\* answer to any of the requests they posted
AllStarted == \A j \in DOMAIN task : task[j].pc # "created"

\* the answer to the pending request arrives: generate's attempt returns or
\* raises, tenacity decides in both layers, and the except ladder builds
\* the result; leaving the `async with` releases the slot
Respond(i) ==
  /\ rb_pc = "gathering"
  /\ AllStarted
  /\ i \in DOMAIN task
  /\ task[i].pc = "requesting"
  /\ \E r \in Allowed(i) :
       LET e == AttemptRaises(r)
           t == Answered(task[i], r)
       IN  /\ faults' = IF r.kind = "ok" THEN faults ELSE faults + 1
           /\ IF e = NoException
                THEN Settle(i, t, e)
              ELSE IF ShouldRetry(InnerRetryIf(e), t.inner,
                                  InnerStopAfterAttempt)
                THEN Backoff(i, t, "inner_backoff")
              ELSE IF ShouldRetry(OuterRetryIf(e), t.outer,
                                  OuterStopAfterAttempt)
                THEN Backoff(i, t, "outer_backoff")
              ELSE Settle(i, t, e)
  /\ UNCHANGED << other_vars, inputs, provider, client, clientsCreated, clientsClosed,
                  notifications, batch_result >>

\* a tenacity sleep ends: the inner layer repeats the request, the outer
\* layer calls generate again
BackoffElapsed(i) ==
  /\ rb_pc = "gathering"
  /\ i \in DOMAIN task
  /\ \/ /\ task[i].pc = "inner_backoff"
        /\ task' = [task EXCEPT ![i] = Post([@ EXCEPT !.inner = @ + 1])]
     \/ /\ task[i].pc = "outer_backoff"
        /\ task' = [task EXCEPT ![i] = CallGenerate([@ EXCEPT !.outer = @ + 1])]
  /\ GetClient
  /\ UNCHANGED << other_vars, inputs, rb_pc, rb_error, provider, clientsClosed, semaphore,
                  faults, notifications, batch_result >>

\* RunnerProgress as _send_progress fills it
RunnerProgress(completed, total, success) ==
  [ completed  |-> completed,
    total      |-> total,
    successful |-> IF success THEN completed ELSE completed - 1,
    failed     |-> IF success THEN 0 ELSE 1 ]

\* what the call of the progress callback raises
CallbackRaises(mode) ==
  IF mode = "raises" THEN Exc("RuntimeError", FALSE) ELSE NoException

\* variant of SendProgressCatches: the handler around the callback is gone
SendProgressCatchesNothing(e) == FALSE

\* `except Exception` around the call of the callback
SendProgressCatches(e) == IsInstance(e.cls, "Exception")

\* _send_progress and the return of the task: without a callback nothing
\* happens; otherwise the callback is handed the progress object and what
\* it raises is logged and dropped by the handler.  An exception the
\* handler did not catch would leave the coroutine and become the task's
\* result in gather.
SendProgress(i) ==
  /\ rb_pc = "gathering"
  /\ i \in DOMAIN task
  /\ task[i].pc = "resolved"
  /\ IF progress_callback = "none"
       THEN /\ notifications' = notifications
            /\ task' = [task EXCEPT ![i].pc = "done"]
       ELSE LET e == CallbackRaises(progress_callback)
            IN  /\ notifications' =
                     Append(notifications,
                            RunnerProgress(i + 1, iterations,
                                           task[i].result.status = "success"))
                /\ task' =
                     IF e = NoException \/ SendProgressCatches(e)
                       THEN [task EXCEPT ![i].pc = "done"]
                       ELSE [task EXCEPT
                               ![i].pc = "done",
                               ![i].result =
                                 [NoResult EXCEPT !.type = "Exception",
                                                  !.error = e.cls]]
  /\ UNCHANGED << other_vars, inputs, rb_pc, rb_error, provider, client, clientsCreated,
                  clientsClosed, semaphore, faults, batch_result >>

(***************************************************************************)
(* run_batch after gather.                                                 *)
(***************************************************************************)
\* variant of ProcessedResults: only successful results are appended
ProcessedSuccesses ==
  SelectSeq([k \in 1 .. iterations |-> ProcessResult(k - 1, task[k - 1].result)],
            LAMBDA r : r.status = "success")

\* the list the loop over enumerate(results) builds: position i holds what
\* task i returned
ProcessedResults ==
  [k \in 1 .. iterations |-> ProcessResult(k - 1, task[k - 1].result)]

\* BaseLLMProvider.close, as __aexit__ calls it
Close ==
  IF client = "open"
    THEN /\ client' = "none"
         /\ clientsClosed' = clientsClosed + 1
    ELSE UNCHANGED << client, clientsClosed >>

\* variant of GatherDone: gather returns as soon as one task has returned
GatherDoneOnFirst == \E i \in DOMAIN task : task[i].pc = "done"

\* `await asyncio.gather(*tasks, return_exceptions=True)` returns once every
\* task has returned
GatherDone == \A i \in DOMAIN task : task[i].pc = "done"

\* gather returns the tasks' results in the order the tasks were passed;
\* the loop appends one IterationResult per position; leaving
\* `async with llm_provider` closes the client; the finally block stamps
\* the completion time
Collect ==
  /\ rb_pc = "gathering"
  /\ GatherDone
  /\ batch_result' = [batch_result EXCEPT !.iterations = ProcessedResults]
  /\ Close
  /\ rb_pc' = "collected"
  /\ UNCHANGED << other_vars, inputs, rb_error, provider, clientsCreated, semaphore, task,
                  faults, notifications >>

\* batch_result.compute_statistics() and the return
ComputeStatistics ==
  /\ rb_pc = "collected"
  /\ batch_result' = compute_statistics(batch_result)
  /\ rb_pc' = "returned"
  /\ UNCHANGED << other_vars, inputs, rb_error, provider, client, clientsCreated,
                  clientsClosed, semaphore, task, faults, notifications >>

Next ==
  \/ Validate
  \/ GetProvider
  \/ Schedule
  \/ \E i \in DOMAIN task : Begin(i)
  \/ \E i \in DOMAIN task : Resume(i)
  \/ \E i \in DOMAIN task : Respond(i)
  \/ \E i \in DOMAIN task : BackoffElapsed(i)
  \/ \E i \in DOMAIN task : SendProgress(i)
  \/ Collect
  \/ ComputeStatistics

Spec == Init /\ [][Next]_vars

SpecRetry == InitRetry /\ [][Next]_vars

\* the steps the event loop takes by itself: it runs every task that is
\* ready to run
LoopSteps ==
  \/ Validate
  \/ GetProvider
  \/ Schedule
  \/ \E i \in DOMAIN task : Begin(i)
  \/ \E i \in DOMAIN task : Resume(i)
  \/ \E i \in DOMAIN task : SendProgress(i)
  \/ Collect
  \/ ComputeStatistics

\* the event loop runs ready tasks, a pending provider request is answered
\* (it returns or fails), and a tenacity sleep ends
Fairness ==
  /\ WF_vars(LoopSteps)
  /\ WF_vars(\E i \in DOMAIN task : Respond(i))
  /\ WF_vars(\E i \in DOMAIN task : BackoffElapsed(i))

\* accepted calls of a few iterations without a callback, whose provider
\* either fails a bounded number of requests in any way or keeps failing
\* one iteration until both retry layers give up
InitLive ==
  /\ AnalysisIdle
  /\ PlatformIdle
  /\ OverlapIdle
  /\ InitWith(1 .. RetryIterations, 1 .. MaxConcurrency, RetryIterations,
              {TRUE}, {"none"},
              { [budget |-> RetryFaults, authAt |-> {}, faulty |-> {k}] :
                  k \in 0 .. (RetryIterations - 1) }
                \cup { [budget |-> MaxFaults, authAt |-> {},
                        faulty |-> AllIndices] })

\* those calls in an environment that answers and a loop that runs
SpecLive == InitLive /\ [][Next]_vars /\ Fairness

\* the batches of Spec together with the end-to-end scenario
SpecE2E == (Init \/ InitE2E) /\ [][Next]_vars

(***************************************************************************)
(* Cancellation: the caller cancels run_batch while it awaits gather.      *)
(* gather cancels its tasks, CancelledError is no Exception and passes     *)
(* every handler of _run_single_iteration, and run_batch leaves            *)
(* `async with llm_provider` with the error once the tasks have ended.     *)
(***************************************************************************)
Cancel ==
  /\ rb_pc = "gathering"
  /\ rb_pc' = "cancelling"
  /\ UNCHANGED << other_vars, inputs, rb_error, provider, client, clientsCreated,
                  clientsClosed, semaphore, task, faults, notifications,
                  batch_result >>

Ended(i) == task[i].pc \in {"done", "cancelled"}

\* the semaphore after iteration i met CancelledError: a waiter leaves the
\* queue (giving back a slot it was already handed), a holder leaves the
\* `async with` and releases
CancelAcquire(sem, i, pc) ==
  LET left == [sem EXCEPT !.waiters = SelectSeq(@, LAMBDA w : w # i),
                          !.woken = @ \ {i}]
  IN  IF pc = "waiting"
        THEN (IF i \in sem.woken THEN Release(left) ELSE left)
      ELSE IF pc \in InFlightPcs THEN Release(sem)
      ELSE sem

\* CancelledError is thrown into task i where it is suspended; gather asks
\* the tasks in the order they were passed
Cancelled(i) ==
  /\ rb_pc = "cancelling"
  /\ i \in DOMAIN task
  /\ ~Ended(i)
  /\ \A j \in DOMAIN task : j < i => Ended(j)
  /\ task' = [task EXCEPT ![i].pc = "cancelled",
                          ![i].result = [NoResult EXCEPT
                                           !.type = "BaseException",
                                           !.error = "CancelledError"]]
  /\ semaphore' = CancelAcquire(semaphore, i, task[i].pc)
  /\ UNCHANGED << other_vars, inputs, rb_pc, rb_error, provider, client, clientsCreated,
                  clientsClosed, faults, notifications, batch_result >>

\* every task has ended: gather raises CancelledError in run_batch, __aexit__
\* closes the client, the finally block runs and the error leaves run_batch
Unwind ==
  /\ rb_pc = "cancelling"
  /\ \A i \in DOMAIN task : Ended(i)
  /\ Close
  /\ rb_pc' = "raised"
  /\ rb_error' = "CancelledError"
  /\ UNCHANGED << other_vars, inputs, provider, clientsCreated, semaphore, task, faults,
                  notifications, batch_result >>

NextCancellable ==
  \/ Next
  \/ Cancel
  \/ \E i \in DOMAIN task : Cancelled(i)
  \/ Unwind

\* batches whose caller may cancel them
InitCancel ==
  /\ AnalysisIdle
  /\ PlatformIdle
  /\ OverlapIdle
  /\ InitWith(1 .. MaxIterations, 1 .. MaxConcurrency, MaxIterations,
           {TRUE}, {"none"},
           { [budget |-> MaxFaults, authAt |-> {}, faulty |-> AllIndices] })

SpecCancel == InitCancel /\ [][NextCancellable]_vars

(***************************************************************************)
(* The analysis of a batch (backend/app/builders/analysis.py).  A text is  *)
(* a sequence of characters, offsets count from 0 as in Python, and a      *)
(* Python float is written as the exact ratio it was computed from.        *)
(***************************************************************************)
UpperCase ==
  << "A", "B", "C", "D", "E", "F", "G", "H", "I", "J", "K", "L", "M" >> \o
  << "N", "O", "P", "Q", "R", "S", "T", "U", "V", "W", "X", "Y", "Z" >>

LowerCase ==
  << "a", "b", "c", "d", "e", "f", "g", "h", "i", "j", "k", "l", "m" >> \o
  << "n", "o", "p", "q", "r", "s", "t", "u", "v", "w", "x", "y", "z" >>

Digits == {"0", "1", "2", "3", "4", "5", "6", "7", "8", "9"}

\* the class \w of the re module, on ASCII text
IsWordChar(c) ==
  \/ \E k \in 1 .. Len(UpperCase) : UpperCase[k] = c
  \/ \E k \in 1 .. Len(LowerCase) : LowerCase[k] = c
  \/ c \in Digits
  \/ c = "_"

\* the case folding of re.IGNORECASE, on ASCII text
Fold(c) ==
  IF \E k \in 1 .. Len(UpperCase) : UpperCase[k] = c
    THEN LowerCase[CHOOSE k \in 1 .. Len(UpperCase) : UpperCase[k] = c]
    ELSE c

\* the assertion \b at offset p of text: exactly one of the characters
\* before and after p is a word character (the ends count as non-word)
Boundary(text, p) ==
  LET before == p >= 1 /\ IsWordChar(text[p])
      after  == p < Len(text) /\ IsWordChar(text[p + 1])
  IN  before # after

\* a compiled pattern: \b or nothing, the escaped brand, \b or nothing
Pattern(prefix, literal, suffix) ==
  [prefix |-> prefix, literal |-> literal, suffix |-> suffix]

\* variant of VisibilityPattern: both assertions are always present
VisibilityPatternBothBoundaries(brand) == Pattern(TRUE, brand, TRUE)

\* the pattern of _compute_visibility: \b on a side only when the brand's
\* character on that side is a word character
VisibilityPattern(brand) ==
  Pattern(brand # << >> /\ IsWordChar(brand[1]),
          brand,
          brand # << >> /\ IsWordChar(brand[Len(brand)]))

\* the pattern of _compute_first_mention_rates: self._word_boundary_pattern
FirstMentionPattern(brand) == Pattern(TRUE, brand, TRUE)

\* the pattern matches text at offset p
MatchesAt(pat, text, p) ==
  LET n == Len(pat.literal)
  IN  /\ p >= 0
      /\ p + n <= Len(text)
      /\ \A k \in 1 .. n : Fold(text[p + k]) = Fold(pat.literal[k])
      /\ pat.prefix => Boundary(text, p)
      /\ pat.suffix => Boundary(text, p + n)

\* pattern.finditer(text): the start offsets of the matches found scanning
\* from offset p on, each scan resuming where the last match ended (one
\* further on after an empty match)
RECURSIVE FindIter(_, _, _)
FindIter(pat, text, p) ==
  IF p > Len(text) THEN << >>
  ELSE IF MatchesAt(pat, text, p)
    THEN << p >> \o FindIter(pat, text,
                             IF pat.literal = << >>
                               THEN p + 1 ELSE p + Len(pat.literal))
  ELSE FindIter(pat, text, p + 1)

NoMatch == -1

\* pattern.search(text): the start of the first match, NoMatch for None
Search(pat, text) ==
  IF \E p \in 0 .. Len(text) : MatchesAt(pat, text, p)
    THEN CHOOSE p \in 0 .. Len(text) :
           /\ MatchesAt(pat, text, p)
           /\ \A q \in 0 .. (p - 1) : ~MatchesAt(pat, text, q)
    ELSE NoMatch

\* a Python float, written as the division that produced it
Div(num, den) == [num |-> num, den |-> den]

Float(n) == Div(n, 1)

\* significand bits of a Python float (IEEE 754 binary64)
SignificandBits == 53

\* (c * 2^n) modulo m
RECURSIVE ShiftMod(_, _, _)
ShiftMod(c, n, m) ==
  IF n = 0 THEN c % m ELSE ShiftMod((2 * c) % m, n - 1, m)

\* for 0 < num < den: the least k with num * 2^k >= den
RECURSIVE LeadingShift(_, _)
LeadingShift(num, den) ==
  IF 2 * num >= den THEN 1 ELSE 1 + LeadingShift(2 * num, den)

\* The float that int / int yields for 0 <= num <= den, den > 0: true
\* division is correctly rounded, so the result is m * 2^-exp with m the
\* integer nearest to num * 2^exp / den (ties to even) and exp chosen so
\* that m has SignificandBits bits.  err is m * den - num * 2^exp: the
\* float is num / den + err / (den * 2^exp).
Rounding(num, den) ==
  IF num = 0 \/ num = den
    THEN [exp |-> SignificandBits, err |-> 0]
    ELSE LET exp == SignificandBits - 1 + LeadingShift(num, den)
             r == ShiftMod(num, exp, den)
             odd == ShiftMod(num, exp, 2 * den) >= den
         IN  [ exp |-> exp,
               err |-> IF 2 * r < den THEN 0 - r
                       ELSE IF 2 * r > den THEN den - r
                       ELSE IF odd THEN den - r
                       ELSE 0 - r ]

\* the sum of a list of integers, added up by halves
RECURSIVE SumSeq(_)
SumSeq(seq) ==
  IF seq = << >> THEN 0
  ELSE IF Len(seq) = 1 THEN seq[1]
  ELSE LET half == Len(seq) \div 2
       IN  SumSeq(SubSeq(seq, 1, half))
             + SumSeq(SubSeq(seq, half + 1, Len(seq)))

\* the matches of the brand in every response, in response order
AllMatches(pat, responses) ==
  [k \in 1 .. Len(responses) |-> FindIter(pat, responses[k], 0)]

\* _compute_visibility
_compute_visibility(responses, brand) ==
  LET matches == AllMatches(VisibilityPattern(brand), responses)
      hits == SelectSeq(matches, LAMBDA m : m # << >>)
      total_mentions == SumSeq([k \in 1 .. Len(hits) |-> Len(hits[k])])
      responses_with_mention == Len(hits)
      positions == [k \in 1 .. Len(hits) |-> hits[k][1]]
      total_responses == Len(responses)
  IN  [ brand |-> brand,
        mention_count |-> total_mentions,
        visibility_rate |->
          IF total_responses > 0
            THEN Div(responses_with_mention, total_responses) ELSE Float(0),
        avg_mentions_per_response |->
          IF responses_with_mention > 0
            THEN Div(total_mentions, responses_with_mention) ELSE Float(0),
        first_mention_rate |-> Float(0),
        avg_position |->
          IF positions # << >>
            THEN Div(SumSeq(positions), Len(positions)) ELSE None ]

\* first_brand = None; a brand is a sequence of single characters
NoBrand == << "None" >>

\* the loop over target_brands for one response.  first is << >> while
\* first_brand is None and first_pos is infinite, else <<first_brand,
\* first_pos>>; the brands from index k on are still to be looked at
RECURSIVE FirstBrandFrom(_, _, _, _)
FirstBrandFrom(response, brands, k, first) ==
  IF k > Len(brands) THEN first
  ELSE LET at == Search(FirstMentionPattern(brands[k]), response)
       IN  IF at # NoMatch /\ (first = << >> \/ at < first[2])
             THEN FirstBrandFrom(response, brands, k + 1, << brands[k], at >>)
             ELSE FirstBrandFrom(response, brands, k + 1, first)

\* the brand one response credits with the first mention, NoBrand for None
FirstBrand(response, brands) ==
  LET first == FirstBrandFrom(response, brands, 1, << >>)
  IN  IF first = << >> THEN NoBrand ELSE first[1]

\* first_mention_counts[brand] after the loop over the responses
FirstMentionCount(responses, brands, brand) ==
  Len(SelectSeq(responses, LAMBDA r : FirstBrand(r, brands) = brand))

\* _compute_first_mention_rates: the list with first_mention_rate patched
\* into the entries of the brands that were counted
_compute_first_mention_rates(responses, visibility_metrics, brands) ==
  [ i \in 1 .. Len(visibility_metrics) |->
      LET vm == visibility_metrics[i]
      IN  IF \E k \in 1 .. Len(brands) : brands[k] = vm.brand
            THEN [vm EXCEPT !.first_mention_rate =
                    IF Len(responses) > 0
                      THEN Div(FirstMentionCount(responses, brands, vm.brand),
                               Len(responses))
                      ELSE Float(0)]
            ELSE vm ]

\* list.sort(key=mention count, reverse=True): a stable sort, so entries
\* with equal counts keep their order; x goes behind every entry whose
\* count is not smaller
RECURSIVE InsertByCount(_, _)
InsertByCount(sorted, x) ==
  IF sorted = << >> THEN << x >>
  ELSE IF Head(sorted).count >= x.count
    THEN << Head(sorted) >> \o InsertByCount(Tail(sorted), x)
  ELSE << x >> \o sorted

\* variant of SortByCountDesc: an ascending sort read backwards, which
\* turns the order of equal counts around
RECURSIVE SortByCountDescReversed(_)
SortByCountDescReversed(shares) ==
  IF shares = << >> THEN << >>
  ELSE LET rest == SortByCountDescReversed(Tail(shares))
           x == Head(shares)
           ahead == SelectSeq(rest, LAMBDA y : y.count >= x.count)
           behind == SelectSeq(rest, LAMBDA y : y.count < x.count)
       IN  ahead \o << x >> \o behind

RECURSIVE SortByCountDesc(_)
SortByCountDesc(shares) ==
  IF shares = << >> THEN << >>
  ELSE InsertByCount(SortByCountDesc(SubSeq(shares, 1, Len(shares) - 1)),
                     shares[Len(shares)])

ShareOfVoice(brand, share, rank) ==
  [brand |-> brand, share |-> share, rank |-> rank]

\* variant of TotalMentions: the largest count stands for the total
RECURSIVE TotalMentionsLargest(_)
TotalMentionsLargest(visibility_metrics) ==
  IF visibility_metrics = << >> THEN 0
  ELSE LET rest == TotalMentionsLargest(Tail(visibility_metrics))
           own == Head(visibility_metrics).mention_count
       IN  IF own >= rest THEN own ELSE rest

\* sum(v.mention_count for v in visibility_metrics)
RECURSIVE TotalMentions(_)
TotalMentions(visibility_metrics) ==
  IF visibility_metrics = << >> THEN 0
  ELSE Head(visibility_metrics).mention_count
       + TotalMentions(Tail(visibility_metrics))

\* _compute_share_of_voice
_compute_share_of_voice(visibility_metrics) ==
  LET total_mentions == TotalMentions(visibility_metrics)
      shares ==
        SortByCountDesc(
          [i \in 1 .. Len(visibility_metrics) |->
             [ brand |-> visibility_metrics[i].brand,
               share |-> Div(visibility_metrics[i].mention_count,
                             total_mentions),
               count |-> visibility_metrics[i].mention_count ]])
  IN  IF total_mentions = 0
        THEN [i \in 1 .. Len(visibility_metrics) |->
                ShareOfVoice(visibility_metrics[i].brand, Float(0), i)]
        ELSE [i \in 1 .. Len(shares) |->
                ShareOfVoice(shares[i].brand, shares[i].share, i)]

RECURSIVE GCD(_, _)
GCD(a, b) == IF b = 0 THEN a ELSE GCD(b, a % b)

\* exact arithmetic on ratios with positive denominators
Reduced(r) ==
  LET g == GCD(r.num, r.den)
  IN  IF g = 0 THEN r ELSE Div(r.num \div g, r.den \div g)

Plus(r, q) == Reduced(Div(r.num * q.den + q.num * r.den, r.den * q.den))

AtMost(r, q) == r.num * q.den <= q.num * r.den

SameValue(r, q) == r.num * q.den = q.num * r.den

\* the exact sum of a list of ratios, added up by halves
RECURSIVE SumRatios(_)
SumRatios(seq) ==
  IF seq = << >> THEN Float(0)
  ELSE IF Len(seq) = 1 THEN seq[1]
  ELSE LET half == Len(seq) \div 2
       IN  Plus(SumRatios(SubSeq(seq, 1, half)),
                SumRatios(SubSeq(seq, half + 1, Len(seq))))

\* the row of the longest-common-subsequence table for one more character
\* c of the first text, from the row above it
RECURSIVE LCSRow(_, _, _, _)
LCSRow(above, c, b, row) ==
  LET j == Len(row)
  IN  IF j > Len(b) THEN row
      ELSE LET cell == IF b[j] = c THEN above[j] + 1
                       ELSE IF above[j + 1] >= row[j] THEN above[j + 1]
                       ELSE row[j]
           IN  LCSRow(above, c, b, Append(row, cell))

RECURSIVE LCSRows(_, _, _, _)
LCSRows(a, b, i, above) ==
  IF i > Len(a) THEN above[Len(b) + 1]
  ELSE LCSRows(a, b, i + 1, LCSRow(above, a[i], b, << 0 >>))

\* length of the longest common subsequence of two texts
LCS(a, b) == LCSRows(a, b, 1, [j \in 1 .. (Len(b) + 1) |-> 0])

\* rapidfuzz fuzz.ratio: the normalized Indel similarity on the scale 0-100
FuzzRatio(a, b) ==
  IF Len(a) + Len(b) = 0 THEN Float(100)
  ELSE Reduced(Div(200 * LCS(a, b), Len(a) + Len(b)))

\* the ceiling on the number of compared pairs
max_comparisons == 1000

\* total_pairs
TotalPairs(n) == (n * (n - 1)) \div 2

\* the number of pairs (i, j) the nested loops list before the first of i
PairsBefore(n, i) == (i - 1) * n - (i * (i - 1)) \div 2

\* the k-th pair of the list `pairs` (k from 1, responses from 1)
PairAt(n, k) ==
  LET i == CHOOSE r \in 1 .. n - 1 :
             PairsBefore(n, r) < k /\ k <= PairsBefore(n, r + 1)
  IN  << i, i + (k - PairsBefore(n, i)) >>

\* the pairs (i, j), i < j, in the order of the nested loops
AllPairs(n) == [k \in 1 .. TotalPairs(n) |-> PairAt(n, k)]

\* the samples the model draws: from a starting position, every stride-th
\* pair around the list, for strides that visit no pair twice
SampleStarts == 0 .. 1

SampleStrides(total) == { d \in {1, 3, 11} : GCD(total, d) = 1 }

\* random.sample(pairs, size), for the samples drawn
RandomSample(n, size) ==
  { [k \in 1 .. size |->
       PairAt(n, ((start + (k - 1) * stride) % TotalPairs(n)) + 1)] :
    start \in SampleStarts, stride \in SampleStrides(TotalPairs(n)) }

\* the pair lists _compute_consistency may compare: all pairs, or a sample
\* of max_comparisons distinct ones when there are more
PairChoices(n) ==
  IF TotalPairs(n) <= max_comparisons
    THEN { AllPairs(n) }
    ELSE RandomSample(n, max_comparisons)

ConsistencyMetrics(avg, min, max, std, score) ==
  [ avg_similarity |-> avg, min_similarity |-> min, max_similarity |-> max,
    std_deviation |-> std, consistency_score |-> score ]

\* the sample standard deviation of a list of similarities, left symbolic
SampleStd(similarities) == [sample_std_of |-> similarities]

\* the guard `len(responses) < 2` of _compute_consistency
FewResponses(responses) == Len(responses) < 2

\* variant of MaximalConsistency: the score of the empty result is used
MaximalConsistencyZeroScore ==
  ConsistencyMetrics(Float(100), Float(100), Float(100), Float(0), Float(0))

\* what _compute_consistency returns when there is nothing to compare
MaximalConsistency ==
  ConsistencyMetrics(Float(100), Float(100), Float(100), Float(0), Float(1))

\* _compute_consistency, comparing the given pairs
_compute_consistency(responses, pairs) ==
  IF FewResponses(responses)
    THEN MaximalConsistency
    ELSE LET similarities ==
               [k \in 1 .. Len(pairs) |->
                  FuzzRatio(responses[pairs[k][1]], responses[pairs[k][2]])]
             total == SumRatios(similarities)
             avg == Reduced(Div(total.num, total.den * Len(similarities)))
             least == CHOOSE k \in 1 .. Len(similarities) :
                        \A l \in 1 .. Len(similarities) :
                          AtMost(similarities[k], similarities[l])
             most == CHOOSE k \in 1 .. Len(similarities) :
                       \A l \in 1 .. Len(similarities) :
                         AtMost(similarities[l], similarities[k])
         IN  ConsistencyMetrics(
               avg, similarities[least], similarities[most],
               IF Len(similarities) > 1
                 THEN SampleStd(similarities) ELSE Float(0),
               Reduced(Div(avg.num, avg.den * 100)))

\* str.lower() on ASCII text
Lower(text) == [k \in 1 .. Len(text) |-> Fold(text[k])]

\* the characters str.strip() removes
Whitespace == {" ", "\t", "\n", "\r"}

\* str.strip()
RECURSIVE Strip(_)
Strip(text) ==
  IF text = << >> THEN text
  ELSE IF Head(text) \in Whitespace THEN Strip(Tail(text))
  ELSE IF text[Len(text)] \in Whitespace
    THEN Strip(SubSeq(text, 1, Len(text) - 1))
  ELSE text

\* sep occurs in text at offset p
FoundAt(sep, text, p) ==
  /\ p + Len(sep) <= Len(text)
  /\ SubSeq(text, p + 1, p + Len(sep)) = sep

\* the offsets at which sep occurs in text
Offsets(sep, text) == { p \in 0 .. Len(text) : FoundAt(sep, text, p) }

\* the offset of the first occurrence of sep in text (sep occurs in text)
Find(sep, text) ==
  CHOOSE p \in Offsets(sep, text) : \A q \in Offsets(sep, text) : p <= q

\* text.split(sep, 1)[1]
AfterFirst(sep, text) ==
  SubSeq(text, Find(sep, text) + Len(sep) + 1, Len(text))

\* text.split(sep, 1)[0]
BeforeFirst(sep, text) == SubSeq(text, 1, Find(sep, text))

\* str.endswith
EndsWith(text, suffix) ==
  /\ Len(suffix) <= Len(text)
  /\ SubSeq(text, Len(text) - Len(suffix) + 1, Len(text)) = suffix

SchemeSeparator == << ":", "/", "/" >>

\* _extract_domain
_extract_domain(url) ==
  LET lowered == Lower(url)
      rest == IF Offsets(SchemeSeparator, lowered) # {}
                THEN AfterFirst(SchemeSeparator, lowered) ELSE lowered
  IN  IF Offsets(<< "/" >>, rest) # {}
        THEN BeforeFirst(<< "/" >>, rest) ELSE rest

\* variant of DomainMatches: any host that ends with the domain is trusted
DomainMatchesAnySuffix(domain, whitelisted_domain) ==
  EndsWith(domain, whitelisted_domain)

\* the test of one host against one normalized whitelist entry
DomainMatches(domain, whitelisted_domain) ==
  \/ domain = whitelisted_domain
  \/ EndsWith(domain, << "." >> \o whitelisted_domain)

\* is_valid after the loop over the normalized whitelist
IsValidCitation(url, whitelist_normalized) ==
  \E k \in 1 .. Len(whitelist_normalized) :
    DomainMatches(_extract_domain(url), whitelist_normalized[k])

\* the citation URLs of all responses in order, the empty ones skipped
RECURSIVE CountedUrls(_)
CountedUrls(cits) ==
  IF cits = << >> THEN << >>
  ELSE SelectSeq(Head(cits), LAMBDA url : url # << >>)
         \o CountedUrls(Tail(cits))

\* the length flagged_urls is cut to
FlaggedLimit == 20

HallucinationMetrics(total, valid, invalid, rate, flagged) ==
  [ total_citations |-> total, valid_citations |-> valid,
    invalid_citations |-> invalid, hallucination_rate |-> rate,
    flagged_urls |-> flagged ]

\* _compute_hallucination over the citations of the successful iterations
_compute_hallucination(cits, whitelist) ==
  LET whitelist_normalized ==
        [k \in 1 .. Len(whitelist) |-> Strip(Lower(whitelist[k]))]
      urls == CountedUrls(cits)
      valid_urls ==
        SelectSeq(urls, LAMBDA u : IsValidCitation(u, whitelist_normalized))
      flagged_urls ==
        SelectSeq(urls, LAMBDA u : ~IsValidCitation(u, whitelist_normalized))
      total_citations == Len(urls)
      valid_citations == Len(valid_urls)
      invalid_citations == total_citations - valid_citations
  IN  HallucinationMetrics(
        total_citations, valid_citations, invalid_citations,
        IF total_citations > 0
          THEN Div(invalid_citations, total_citations) ELSE Float(0),
        SubSeq(flagged_urls, 1,
               IF Len(flagged_urls) < FlaggedLimit
                 THEN Len(flagged_urls) ELSE FlaggedLimit))

Perplexity == "perplexity"

\* the hallucination metrics of analyze_batch: computed for Perplexity
\* batches with a non-empty whitelist only
HallucinationOf(prov, whitelist, cits) ==
  IF prov = Perplexity /\ whitelist.given /\ whitelist.domains # << >>
    THEN _compute_hallucination(cits, whitelist.domains) ELSE None

AnalysisResult(total, target, competitors, share, consistency, halluc, raw) ==
  [ type |-> "AnalysisResult",
    total_responses |-> total,
    target_visibility |-> target,
    competitor_visibility |-> competitors,
    share_of_voice |-> share,
    consistency |-> consistency,
    hallucination |-> halluc,
    raw_metrics |-> raw ]

\* variant of _empty_result: the consistency of a lone response is reported
_empty_result_maximal ==
  AnalysisResult(0, None, << >>, << >>, MaximalConsistency, None,
                 [total_responses |-> 0, error |-> "No successful responses"])

\* _empty_result
_empty_result ==
  AnalysisResult(0, None, << >>, << >>,
                 ConsistencyMetrics(Float(0), Float(0), Float(0), Float(0),
                                    Float(0)),
                 None,
                 [total_responses |-> 0, error |-> "No successful responses"])

\* the loop of analyze_batch over target_brands, then the call of
\* _compute_first_mention_rates on the list it built
VisibilityOfAll(responses, brands) ==
  _compute_first_mention_rates(
    responses,
    [k \in 1 .. Len(brands) |-> _compute_visibility(responses, brands[k])],
    brands)

\* analyze_batch: the sentinel when no response succeeded, else visibility,
\* first mentions, share of voice, consistency and hallucination
AnalyzeBatch ==
  /\ analysis_result = NoAnalysis
  /\ target_brands # << >>
  /\ IF Len(response_texts) = 0
       THEN /\ analysis_result' = _empty_result
            /\ UNCHANGED << all_visibility, compared >>
       ELSE /\ all_visibility' = VisibilityOfAll(response_texts, target_brands)
            /\ \E pairs \in PairChoices(Len(response_texts)) :
                /\ compared' = IF FewResponses(response_texts)
                                 THEN << >> ELSE pairs
                /\ analysis_result' =
                   AnalysisResult(
                     Len(response_texts),
                     all_visibility'[1],
                     Tail(all_visibility'),
                     _compute_share_of_voice(all_visibility'),
                     _compute_consistency(response_texts, pairs),
                     HallucinationOf(llm_provider, domain_whitelist,
                                     citations),
                     [total_responses |-> Len(response_texts)])
  /\ UNCHANGED << platform_vars, overlap_vars, target_brands, response_texts, llm_provider,
                  domain_whitelist, citations, inputs, rb_pc, rb_error,
                  provider, client, clientsCreated, clientsClosed, semaphore,
                  task, faults, notifications, batch_result >>

\* the runner takes no part in an analysis
NoBatch ==
  InitWith({1}, {1}, DefaultMaxIterations, {TRUE}, {"none"},
           {[budget |-> 0, authAt |-> {}, faulty |-> {}]})

\* a batch of another provider, analysed without a whitelist
InitAnalysisWith(brandLists, responseLists) ==
  /\ target_brands \in brandLists
  /\ response_texts \in responseLists
  /\ all_visibility = << >>
  /\ analysis_result = NoAnalysis
  /\ llm_provider = "openai"
  /\ domain_whitelist = NoWhitelist
  /\ citations = [r \in 1 .. Len(response_texts) |-> << >>]
  /\ compared = << >>
  /\ PlatformIdle
  /\ OverlapIdle
  /\ NoBatch

\* two letters, one of them in both cases, and a punctuation mark
Alphabet == {"a", "A", "b", "!"}

\* the texts of at most n characters
Texts(n) == UNION { [1 .. k -> Alphabet] : k \in 0 .. n }

\* the lists of 1 to n elements of S
Lists(S, from, n) == UNION { [1 .. k -> S] : k \in from .. n }

Acme == << "A", "c", "m", "e" >>

Yahoo == << "Y", "a", "h", "o", "o", "!" >>

IRecommendAcme == << "I", " ", "r", "e", "c", "o", "m", "m", "e", "n", "d", " ", "A", "c", "m", "e", "." >>

ACMEIsGreat == << "A", "C", "M", "E", " ", "i", "s", " ", "g", "r", "e", "a", "t" >>

Academic == << "A", "c", "a", "d", "e", "m", "i", "c" >>

Acmerch == << "A", "c", "m", "e", "r", "c", "h" >>

YahooIsCool == << "Y", "a", "h", "o", "o", "!", " ", "i", "s", " ", "c", "o", "o", "l", "." >>

\* one brand against one response: every brand of 1 to MaxBrandLen
\* characters against every text of at most MaxTextLen characters, and the
\* documented examples
InitMatch ==
  \/ InitAnalysisWith(
       { << b >> : b \in Texts(MaxBrandLen) \ { << >> } },
       { << t >> : t \in Texts(MaxTextLen) })
  \/ InitAnalysisWith(
       { << Acme >>, << Yahoo >> },
       { << t >> : t \in { IRecommendAcme, ACMEIsGreat, Academic, Acmerch,
                           YahooIsCool } })

BrandPool ==
  { << "a" >>, << "b" >>, << "a", "!" >>, << "a", "b" >> }

TextPool ==
  { << "a", "!" >>,
    << "b", " ", "a" >>,
    << "a", "!", " ", "b" >>,
    << "a", "b" >>,
    << "A", " ", "a", " ", "b" >> }

\* 1 to MaxBrands brands against 0 to MaxResponses responses
InitPool ==
  InitAnalysisWith(Lists(BrandPool, 1, MaxBrands),
                   Lists(TextPool, 0, MaxResponses))

\* n times the word w, each followed by a space
RECURSIVE Repeat(_, _)
Repeat(w, n) == IF n = 0 THEN << >> ELSE w \o << " " >> \o Repeat(w, n - 1)

\* the brand of rank-list position i: a one-letter name
BrandName(i) == << LowerCase[i] >>

\* the response that mentions brand i counts[i] times
RECURSIVE TextOf(_, _)
TextOf(counts, i) ==
  IF i > Len(counts) THEN << >>
  ELSE Repeat(BrandName(i), counts[i]) \o TextOf(counts, i + 1)

\* 1 to MaxRanked brands with every combination of 0 to MaxMentions
\* mentions in the one response
InitShare ==
  \E counts \in Lists(0 .. MaxMentions, 1, MaxRanked) :
    InitAnalysisWith({ [i \in 1 .. Len(counts) |-> BrandName(i)] },
                     { << TextOf(counts, 1) >> })

SpecAnalysis == (InitMatch \/ InitPool \/ InitShare) /\ [][AnalyzeBatch]_vars

\* batch sizes around the sampling ceiling: 45 responses make 990 pairs, 46
\* make 1035, 50 make 1225 and 200 make 19900
ScaleSizes == {45, 46, 50, 200}

\* the texts large batches repeat in turn
ScaleTexts ==
  { << << "a" >> >>,
    << << "a" >>, << "b" >> >>,
    << << "a" >>, << "a", "b" >>, << >> >> }

\* large batches of successful responses
InitScale ==
  \E n \in ScaleSizes, texts \in ScaleTexts :
    InitAnalysisWith({ << << "a" >> >> },
                     { [k \in 1 .. n |-> texts[(k % Len(texts)) + 1]] })

SpecScale == (InitScale \/ InitShare) /\ [][AnalyzeBatch]_vars

Http == << "h", "t", "t", "p", ":", "/", "/" >>

\* citation URLs: with and without scheme and path, in either case, a host
\* that only ends like a trusted domain, a path that names one, and the
\* empty URL
UrlPool ==
  { << "b", ".", "c" >>,
    Http \o << "a", ".", "b", ".", "c", "/", "x" >>,
    Http \o << "a", "b", ".", "c" >>,
    << "H", "T", "T", "P", ":", "/", "/", "B", ".", "C", "/", "x" >>,
    << "a", ".", "b", ".", "c", "/", "x" >>,
    << "c", ".", "b", "/", "b", ".", "c" >>,
    << >> }

DomainPool ==
  { << "b", ".", "c" >>,
    << " ", "B", ".", "c", " " >>,
    << "c" >>,
    << "d", ".", "e" >> }

Providers == { Perplexity, "openai" }

Whitelists ==
  { NoWhitelist } \cup
    { WhitelistOf(ds) : ds \in Lists(DomainPool, 0, MaxWhitelist) }

ExampleCom == << "e", "x", "a", "m", "p", "l", "e", ".", "c", "o", "m" >>

UrlAExampleCom == << "h", "t", "t", "p", "s", ":", "/", "/", "a", "." >> \o ExampleCom \o << "/", "p" >>

UrlBCom == Http \o << "b", ".", "c", "o", "m" >>

InitCitationsWith(brandLists, responseLists, whitelists, citationLists) ==
  /\ target_brands \in brandLists
  /\ response_texts \in responseLists
  /\ all_visibility = << >>
  /\ analysis_result = NoAnalysis
  /\ llm_provider \in Providers
  /\ domain_whitelist \in whitelists
  /\ citations \in citationLists
  /\ Len(citations) = Len(response_texts)
  /\ compared = << >>
  /\ PlatformIdle
  /\ OverlapIdle
  /\ NoBatch

\* batches with citations: no successful response under every brand list
\* and whitelist; one response citing 0 to MaxCitations URLs; two
\* responses citing one URL each; and the documented example
InitCitations ==
  \/ InitCitationsWith(Lists(BrandPool, 1, MaxBrands), { << >> },
                       Whitelists, { << >> })
  \/ InitCitationsWith({ << << "a" >> >> }, { << << "a" >> >> },
                       Whitelists,
                       { << c >> : c \in Lists(UrlPool, 0, MaxCitations) })
  \/ InitCitationsWith({ << << "a" >> >> }, { << << "a" >>, << "b" >> >> },
                       Whitelists,
                       { << << u >>, << v >> >> : u, v \in UrlPool })
  \/ InitCitationsWith({ << << "a" >> >> }, { << << "a" >>, << "b" >> >> },
                       { WhitelistOf(<< ExampleCom >>) },
                       { << << UrlAExampleCom >>, << UrlBCom >> >>,
                         << << UrlAExampleCom, UrlBCom >>, << >> >> })

SpecCitations == InitCitations /\ [][AnalyzeBatch]_vars

(***************************************************************************)
(* The experiment endpoint (backend/app/routers/experiments.py), the       *)
(* session it is handed (backend/app/core/database.py) and the background  *)
(* task (backend/app/worker.py).  One user, one experiment.                *)
(***************************************************************************)
\* the largest quota and the largest count a request asks for
MaxQuota == 3
MaxRequested == 2

run_batch_vars ==
  << inputs, rb_pc, rb_error, provider, client, clientsCreated,
     clientsClosed, semaphore, task, faults, notifications, batch_result >>

\* session.commit(): what the session holds back is written
Commit(db, s) ==
  [ db EXCEPT
      !.prompts_used_this_month =
        IF "user" \in s.pending THEN s.prompts_used_this_month ELSE @,
      !.experiment = IF "experiment" \in s.pending THEN s.experiment ELSE @ ]

Committed(s) == [s EXCEPT !.pending = {}]

\* session.rollback(): what the session holds back is dropped
RolledBack(db, s) ==
  [ prompts_used_this_month |-> db.prompts_used_this_month,
    experiment |-> db.experiment,
    pending |-> {} ]

\* raise HTTPException(status_code)
Raise(req, status_code) ==
  [req EXCEPT !.pc = "raising", !.status_code = status_code]

\* create_experiment up to the charge: the ceiling on iterations, the quota
\* check, the increment of the counter and its commit
ChargeQuota ==
  /\ request.pc = "received"
  /\ IF request.iterations > max_iterations
       THEN /\ request' = Raise(request, 400)
            /\ UNCHANGED << database, session >>
       ELSE IF ~request.testing_mode /\ ~request.unlimited_prompts
         THEN IF session.prompts_used_this_month + request.iterations
                   > database.monthly_prompt_quota
                THEN /\ request' = Raise(request, 403)
                     /\ UNCHANGED << database, session >>
                ELSE LET charged ==
                           [session EXCEPT
                              !.prompts_used_this_month =
                                @ + request.iterations,
                              !.pending = @ \cup {"user"}]
                     IN  /\ database' = Commit(database, charged)
                         /\ session' = Committed(charged)
                         /\ request' = [request EXCEPT !.pc = "charged"]
         ELSE /\ request' = [request EXCEPT !.pc = "charged"]
              /\ UNCHANGED << database, session >>
  /\ UNCHANGED << worker, analysis_vars, overlap_vars,
                  run_batch_vars >>

\* exp_repo.create_experiment: the row is added and flushed
CreateExperiment ==
  /\ request.pc = "charged"
  /\ session' =
       [session EXCEPT
          !.experiment = [ status |-> "pending", error_message |-> "none",
                           iterations |-> request.iterations ],
          !.pending = @ \cup {"experiment"}]
  /\ request' = [request EXCEPT !.pc = "created"]
  /\ UNCHANGED << database, worker, analysis_vars, overlap_vars,
                  run_batch_vars >>

\* execute_experiment_task.delay: the task is queued, or the broker fails
Enqueue ==
  /\ request.pc = "created"
  /\ \E queued \in BOOLEAN :
       IF queued
         THEN /\ worker' = [worker EXCEPT !.pc = "queued"]
              /\ request' = [request EXCEPT !.pc = "returning",
                                            !.status_code = 202]
         ELSE /\ request' = [request EXCEPT !.pc = "refunding"]
              /\ UNCHANGED worker
  /\ UNCHANGED << database, session, analysis_vars, overlap_vars,
                  run_batch_vars >>

\* the refund in the except branch: the decrement and its commit
RefundQuota ==
  /\ request.pc = "refunding"
  /\ IF ~request.testing_mode /\ ~request.unlimited_prompts
       THEN LET refunded ==
                  [session EXCEPT
                     !.prompts_used_this_month = @ - request.iterations,
                     !.pending = @ \cup {"user"}]
            IN  /\ database' = Commit(database, refunded)
                /\ session' = Committed(refunded)
       ELSE UNCHANGED << database, session >>
  /\ request' = [request EXCEPT !.pc = "marking"]
  /\ UNCHANGED << worker, analysis_vars, overlap_vars,
                  run_batch_vars >>

\* update_experiment_status(FAILED) in the session, then HTTPException 503
MarkFailedAndRaise ==
  /\ request.pc = "marking"
  /\ session' =
       [session EXCEPT
          !.experiment.status = "failed",
          !.experiment.error_message =
            "System overloaded, please try again later.",
          !.pending = @ \cup {"experiment"}]
  /\ request' = Raise(request, 503)
  /\ UNCHANGED << database, worker, analysis_vars, overlap_vars,
                  run_batch_vars >>

\* get_db_session when the handler returned: commit
SessionExit(db, s) == << Commit(db, s), Committed(s) >>

\* get_db_session when the handler raised an HTTPException: rollback and
\* re-raise when the framework throws the exception into the generator,
\* as FastAPI does from 0.106 on; commit when it turns the exception into
\* the response first and resumes the generator, as earlier versions do
SessionExitOnException(db, s) ==
  { << db, RolledBack(db, s) >>, SessionExit(db, s) }

\* get_db_session after the handler
CloseSession ==
  /\ request.pc \in {"returning", "raising"}
  /\ \E after \in IF request.pc = "returning"
                     THEN { SessionExit(database, session) }
                     ELSE SessionExitOnException(database, session) :
       /\ database' = after[1]
       /\ session' = after[2]
  /\ request' = [request EXCEPT !.pc = "done"]
  /\ UNCHANGED << worker, analysis_vars, overlap_vars,
                  run_batch_vars >>

\* asyncio.run refuses to start inside a running event loop
RunAsyncRaises(loop_running) == loop_running

RunningLoopError == "asyncio.run() cannot be called from a running event loop"

Max(a, b) == IF a >= b THEN a ELSE b

\* _refund_user_quota
_refund_user_quota(db, amount) ==
  [db EXCEPT !.prompts_used_this_month = Max(0, @ - amount)]

\* _mark_experiment_failed_internal: the status and the message are
\* written when the row exists, and the quota is refunded when an amount
\* and a user were passed
_mark_experiment_failed(db, error_message, refund_amount, user_id) ==
  LET marked ==
        IF db.experiment.status = "absent" THEN db
        ELSE [db EXCEPT !.experiment.status = "failed",
                        !.experiment.error_message = error_message]
  IN  IF refund_amount > 0 /\ user_id
        THEN _refund_user_quota(marked, refund_amount) ELSE marked

\* an exception leaves the try block of _execute_experiment_async
Fail(w, error) == [w EXCEPT !.pc = "handling", !.error = error]

\* execute_experiment_task starts: run_async starts the event loop
StartTask ==
  /\ worker.pc = "queued"
  /\ worker' = [worker EXCEPT !.pc = "starting", !.loop_running = TRUE]
  /\ UNCHANGED << database, session, request, analysis_vars, overlap_vars,
                  run_batch_vars >>

\* phase 1: the experiment is read, user and iteration count are kept for
\* the refund, and the experiment is set RUNNING; a database error may end
\* the phase before or after the row was read
StartExperiment ==
  /\ worker.pc = "starting"
  /\ \E fails \in {"no", "reading", "writing"} :
       IF fails = "reading"
         THEN /\ worker' = Fail(worker, "database")
              /\ UNCHANGED database
       ELSE IF database.experiment.status = "absent"
         THEN /\ worker' = Fail(worker, "not found")
              /\ UNCHANGED database
       ELSE LET loaded ==
                  [worker EXCEPT
                     !.user_id = TRUE,
                     !.iterations_count = database.experiment.iterations]
            IN  IF fails = "writing"
                  THEN /\ worker' = Fail(loaded, "database")
                       /\ UNCHANGED database
                  ELSE /\ worker' = [loaded EXCEPT !.pc = "running"]
                       /\ database' =
                            [database EXCEPT !.experiment.status = "running"]
  /\ UNCHANGED << session, request, analysis_vars, overlap_vars,
                  run_batch_vars >>

\* phase 2: runner.run_batch returns or raises
RunBatch ==
  /\ worker.pc = "running"
  /\ \/ worker' = [worker EXCEPT !.pc = "saving"]
     \/ worker' = Fail(worker, "run_batch")
  /\ UNCHANGED << database, session, request, analysis_vars, overlap_vars,
                  run_batch_vars >>

\* phases 3 to 5: iterations are stored, the batch is analysed and the
\* experiment is set COMPLETED, or one of them raises
SaveResults ==
  /\ worker.pc = "saving"
  /\ \/ /\ worker' = [worker EXCEPT !.pc = "completed",
                                    !.loop_running = FALSE]
        /\ database' = [database EXCEPT !.experiment.status = "completed"]
     \/ /\ worker' = Fail(worker, "database")
        /\ UNCHANGED database
  /\ UNCHANGED << session, request, analysis_vars, overlap_vars,
                  run_batch_vars >>

\* the except branch of _execute_experiment_async: run_async is called to
\* mark the experiment failed with the refund; when it raises, its error
\* replaces the one being handled, else that one is raised again.  The
\* event loop ends as the exception leaves the coroutine.
HandleInLoop ==
  /\ worker.pc = "handling"
  /\ IF RunAsyncRaises(worker.loop_running)
       THEN /\ worker' = [worker EXCEPT !.pc = "escaped",
                                        !.error = RunningLoopError,
                                        !.loop_running = FALSE]
            /\ UNCHANGED database
       ELSE /\ database' =
                 _mark_experiment_failed(database, worker.error,
                                         worker.iterations_count,
                                         worker.user_id)
            /\ worker' = [worker EXCEPT !.pc = "escaped",
                                        !.loop_running = FALSE]
  /\ UNCHANGED << session, request, analysis_vars, overlap_vars,
                  run_batch_vars >>

\* the except branch of execute_experiment_task: the experiment is marked
\* failed with the message of the exception that arrived, without refund,
\* and the exception is raised again
HandleInTask ==
  /\ worker.pc = "escaped"
  /\ IF RunAsyncRaises(worker.loop_running)
       THEN UNCHANGED database
       ELSE database' = _mark_experiment_failed(database, worker.error, 0,
                                                FALSE)
  /\ worker' = [worker EXCEPT !.pc = "failed"]
  /\ UNCHANGED << session, request, analysis_vars, overlap_vars,
                  run_batch_vars >>

NextPlatform ==
  \/ ChargeQuota
  \/ CreateExperiment
  \/ Enqueue
  \/ RefundQuota
  \/ MarkFailedAndRaise
  \/ CloseSession
  \/ StartTask
  \/ StartExperiment
  \/ RunBatch
  \/ SaveResults
  \/ HandleInLoop
  \/ HandleInTask

\* a user with a quota and a counter within it sends one request
InitPlatform ==
  /\ \E quota \in 1 .. MaxQuota, used \in 0 .. MaxQuota :
       /\ used <= quota
       /\ database = [ prompts_used_this_month |-> used,
                       monthly_prompt_quota |-> quota,
                       experiment |-> NoExperiment ]
       /\ session = [ prompts_used_this_month |-> used,
                      experiment |-> NoExperiment, pending |-> {} ]
       /\ \E n \in (1 .. MaxRequested) \cup {DefaultMaxIterations + 1},
             testing, unlimited \in BOOLEAN :
            request = [ pc |-> "received", iterations |-> n,
                        testing_mode |-> testing,
                        unlimited_prompts |-> unlimited,
                        before |-> used, status_code |-> 0 ]
  /\ worker = IdleWorker
  /\ AnalysisIdle
  /\ OverlapIdle
  /\ NoBatch

SpecPlatform == InitPlatform /\ [][NextPlatform]_vars

(***************************************************************************)
(* Two run_batch calls on one RunnerBuilder instance, inside one event     *)
(* loop.  The loop keeps a FIFO of ready handles and runs the oldest up to *)
(* its next suspension.  run_batch has no suspension before the await of   *)
(* gather, an iteration task none before `async with self._semaphore`.     *)
(* An iteration holds its slot from admission until it leaves the          *)
(* `async with`, whatever _execute_with_retry does in between, so its      *)
(* requests and backoffs are one step here.                                *)
(***************************************************************************)
\* largest iteration count of a call on the shared instance
OverlapIterations == 2

CallIds == {1, 2}

\* the Semaphore(10) of the constructor has identity 0, the one a call
\* installs has the identity of the call
ConstructorGate == 0

JobIds == CallIds \X (0 .. (OverlapIterations - 1))

JobsOf(c) == { j \in JobIds : j[1] = c /\ j[2] < calls[c].iterations }

NoJob == [pc |-> "none", gate |-> ConstructorGate]

Handle(kind, c, i) == [kind |-> kind, call |-> c, index |-> i]

CallHandle(c) == Handle("call", c, 0)

JobHandle(j) == Handle("job", j[1], j[2])

\* the tasks of the waiters a semaphore operation handed a slot to:
\* resolving a waiter's future schedules its task with call_soon
Wakeups(before, after) ==
  LET woken == SelectSeq(before.waiters,
                         LAMBDA w : w \in after.woken \ before.woken)
  IN  [k \in 1 .. Len(woken) |-> JobHandle(woken[k])]

\* the caller starts run_batch for call c: as a task of its own, or inside
\* a task that becomes ready
Launch(c) ==
  /\ c \in DOMAIN calls
  /\ calls[c].pc = "idle"
  /\ calls' = [calls EXCEPT ![c].pc = "scheduled"]
  /\ ready' = Append(ready, CallHandle(c))
  /\ UNCHANGED << gates, instance_semaphore, jobs >>
  /\ UNCHANGED << platform_vars, analysis_vars, run_batch_vars >>

\* run_batch of call c runs from its start to the await of gather:
\* `self._semaphore = asyncio.Semaphore(config.max_concurrency)` makes the
\* attribute of the instance refer to the new object, and gather schedules
\* one task per iteration
StartBatch(c) ==
  /\ ready # << >>
  /\ Head(ready) = CallHandle(c)
  /\ calls[c].pc = "scheduled"
  /\ gates' = [gates EXCEPT ![c] = Semaphore(GateSize(calls[c].max_concurrency))]
  /\ instance_semaphore' = c
  /\ jobs' = [j \in JobIds |->
                IF j \in JobsOf(c) THEN [NoJob EXCEPT !.pc = "created"]
                                   ELSE jobs[j]]
  /\ calls' = [calls EXCEPT ![c].pc = "gathering"]
  /\ ready' = Tail(ready)
                 \o [k \in 1 .. calls[c].iterations |-> JobHandle(<< c, k - 1 >>)]
  /\ UNCHANGED << platform_vars, analysis_vars, run_batch_vars >>

\* the first step of an iteration task: `async with self._semaphore` reads
\* the attribute of the instance now, and takes a slot of that object or
\* queues on it
BeginJob(j) ==
  /\ ready # << >>
  /\ Head(ready) = JobHandle(j)
  /\ jobs[j].pc = "created"
  /\ LET g == instance_semaphore
     IN  IF ~Locked(gates[g])
           THEN /\ gates' = [gates EXCEPT ![g].value = @ - 1]
                /\ jobs' = [jobs EXCEPT ![j] = [pc |-> "requesting", gate |-> g]]
           ELSE /\ gates' = [gates EXCEPT ![g].waiters = Append(@, j)]
                /\ jobs' = [jobs EXCEPT ![j] = [pc |-> "waiting", gate |-> g]]
  /\ ready' = Tail(ready)
  /\ UNCHANGED << calls, instance_semaphore >>
  /\ UNCHANGED << platform_vars, analysis_vars, run_batch_vars >>

\* a waiter that was handed a slot resumes inside acquire of the object it
\* queued on
ResumeJob(j) ==
  /\ ready # << >>
  /\ Head(ready) = JobHandle(j)
  /\ jobs[j].pc = "waiting"
  /\ LET g      == jobs[j].gate
         left   == [gates[g] EXCEPT
                      !.waiters = SelectSeq(@, LAMBDA w : w # j),
                      !.woken = @ \ {j}]
     IN  /\ gates' = [gates EXCEPT ![g] = WakeWhileFree(left)]
         /\ ready' = Tail(ready) \o Wakeups(left, WakeWhileFree(left))
  /\ jobs' = [jobs EXCEPT ![j].pc = "requesting"]
  /\ UNCHANGED << calls, instance_semaphore >>
  /\ UNCHANGED << platform_vars, analysis_vars, run_batch_vars >>

\* the last request of the iteration is answered: the transport's callback
\* makes the task ready
Answer(j) ==
  /\ j \in JobIds
  /\ jobs[j].pc = "requesting"
  /\ jobs' = [jobs EXCEPT ![j].pc = "answered"]
  /\ ready' = Append(ready, JobHandle(j))
  /\ UNCHANGED << calls, gates, instance_semaphore >>
  /\ UNCHANGED << platform_vars, analysis_vars, run_batch_vars >>

\* the task builds its result and leaves the `async with`: __aexit__
\* releases the object the task acquired; the task returns, and the last
\* task of a call to return makes gather, and with it run_batch, ready
LeaveJob(j) ==
  /\ ready # << >>
  /\ Head(ready) = JobHandle(j)
  /\ jobs[j].pc = "answered"
  /\ LET g == jobs[j].gate
         last == \A k \in JobsOf(j[1]) \ {j} : jobs[k].pc = "done"
     IN  /\ gates' = [gates EXCEPT ![g] = Release(@)]
         /\ ready' = Tail(ready)
                        \o Wakeups(gates[g], Release(gates[g]))
                        \o (IF last THEN << CallHandle(j[1]) >> ELSE << >>)
  /\ jobs' = [jobs EXCEPT ![j].pc = "done"]
  /\ UNCHANGED << calls, instance_semaphore >>
  /\ UNCHANGED << platform_vars, analysis_vars, run_batch_vars >>

\* gather returns in run_batch, which collects the results and returns
ReturnBatch(c) ==
  /\ ready # << >>
  /\ Head(ready) = CallHandle(c)
  /\ calls[c].pc = "gathering"
  /\ calls' = [calls EXCEPT ![c].pc = "returned"]
  /\ ready' = Tail(ready)
  /\ UNCHANGED << gates, instance_semaphore, jobs >>
  /\ UNCHANGED << platform_vars, analysis_vars, run_batch_vars >>

NextOverlap ==
  \/ \E c \in CallIds : Launch(c)
  \/ \E c \in CallIds : StartBatch(c)
  \/ \E j \in JobIds : BeginJob(j)
  \/ \E j \in JobIds : ResumeJob(j)
  \/ \E j \in JobIds : Answer(j)
  \/ \E j \in JobIds : LeaveJob(j)
  \/ \E c \in CallIds : ReturnBatch(c)

\* one RunnerBuilder, as constructed, and two calls the caller is about to
\* make on it, each with its own BatchConfig; the entry of gates for a call
\* is overwritten when the call creates its semaphore
InitOverlap ==
  /\ calls \in [CallIds -> [pc : {"idle"},
                            iterations : 1 .. OverlapIterations,
                            max_concurrency : 1 .. MaxConcurrency]]
  /\ gates = [g \in {ConstructorGate} \cup CallIds |-> Semaphore(DefaultGate)]
  /\ instance_semaphore = ConstructorGate
  /\ jobs = [j \in JobIds |-> NoJob]
  /\ ready = << >>
  /\ AnalysisIdle
  /\ PlatformIdle
  /\ NoBatch

SpecOverlap == InitOverlap /\ [][NextOverlap]_vars

(***************************************************************************)
(* Properties.                                                             *)
(***************************************************************************)
Returned == rb_pc = "returned"

\* the outcome at 0-based position i of the returned BatchResult
Outcome(i) == batch_result.iterations[i + 1]

FailureStatuses == {"failed", "rate_limited", "auth_error", "timeout"}

Settled(i) == task[i].pc \in {"resolved", "done"}

OutOfOrderCompletion ==
  /\ Len(notifications) >= 2
  /\ notifications[1].completed > notifications[2].completed

\* C1: the BatchResult run_batch returns holds exactly N outcomes, and the
\* outcome at position i carries ordinal index i, so that every index of
\* 0..N-1 appears exactly once, whatever failed and in whatever order the
\* iterations completed.
C1_OutcomesIndexed ==
  Returned =>
    /\ Len(batch_result.iterations) = iterations
    /\ \A i \in 0 .. (iterations - 1) : Outcome(i).iteration_index = i
    /\ \A i \in 0 .. (iterations - 1) :
         Cardinality({ k \in 1 .. Len(batch_result.iterations) :
                         batch_result.iterations[k].iteration_index = i }) = 1

C1_Witness ==
  /\ Returned
  /\ iterations >= 3
  /\ OutOfOrderCompletion
  /\ \E i \in Indices : Outcome(i).status = "success"
  /\ \E i \in Indices : Outcome(i).status \in FailureStatuses

PayloadIffSuccess(r) == (r.status = "success") <=> (r.response # NoPayload)

\* C2: every outcome an iteration produces, every outcome of the returned
\* BatchResult, and every outcome run_batch would build from what gather
\* hands it (a result, nothing yet, or an exception) has status success if
\* and only if it carries a response payload.
C2_SuccessIffPayload ==
  /\ \A i \in DOMAIN task :
       task[i].result.type = "IterationResult" =>
         PayloadIffSuccess(task[i].result)
  /\ \A k \in 1 .. Len(batch_result.iterations) :
       PayloadIffSuccess(batch_result.iterations[k])
  /\ \A i \in DOMAIN task :
       /\ PayloadIffSuccess(ProcessResult(i, task[i].result))
       /\ PayloadIffSuccess(
            ProcessResult(i, [NoResult EXCEPT !.type = "Exception",
                                              !.error = "CancelledError"]))

C2_Witness ==
  /\ Returned
  /\ \E i \in Indices :
       /\ Outcome(i).status = "rate_limited"
       /\ task[i].posts = 25
  /\ \E i \in Indices :
       /\ Outcome(i).status = "success"
       /\ Outcome(i).response # NoPayload

\* C3: while the batch runs, at most max_concurrency iterations hold a slot
\* of the gate (in a provider call, in a retry backoff, or handed the slot
\* and about to resume); an iteration that waits at the gate has made no
\* request.
C3_GateBound ==
  rb_pc = "gathering" =>
    /\ Cardinality(Admitted) <= max_concurrency
    /\ \A i \in DOMAIN task :
         task[i].pc \in {"created", "waiting"} => task[i].posts = 0

C3_Witness ==
  /\ rb_pc = "gathering"
  /\ max_concurrency >= 2
  /\ Cardinality(InFlight) = max_concurrency
  /\ \E i \in DOMAIN task : task[i].pc \in {"inner_backoff", "outer_backoff"}
  /\ \E i \in DOMAIN task :
       task[i].pc = "waiting" /\ i \notin semaphore.woken

SuccessPositions ==
  { k \in 1 .. Len(batch_result.iterations) :
      batch_result.iterations[k].status = "success" }

IsE2E == iterations = E2EIterations /\ upstream.authAt = E2EAuthAt

\* C5: when run_batch returns, successful_iterations is the number of
\* outcomes with status success, failed_iterations the number of the
\* others, and successful + failed = total_iterations = N; the analysis
\* input (raw_responses) holds exactly the successful payloads.  In the
\* end-to-end scenario (10 iterations, AuthError at 2 and 7) the counts are
\* N - 2 = 8 and 2, the two failures took one request each, and the
\* analysis input holds the 8 other responses.
C5_CountsConsistent ==
  Returned =>
    LET its == batch_result.iterations
        raw == raw_responses(its)
    IN  /\ batch_result.successful_iterations = Cardinality(SuccessPositions)
        /\ batch_result.failed_iterations =
             Cardinality((1 .. Len(its)) \ SuccessPositions)
        /\ batch_result.successful_iterations + batch_result.failed_iterations
             = batch_result.total_iterations
        /\ batch_result.total_iterations = iterations
        /\ Len(raw) = Cardinality(SuccessPositions)
        /\ { raw[j] : j \in 1 .. Len(raw) } =
             { its[k].response : k \in SuccessPositions }
        /\ IsE2E =>
             /\ batch_result.successful_iterations
                  = E2EIterations - Cardinality(E2EAuthAt)
             /\ batch_result.failed_iterations = Cardinality(E2EAuthAt)
             /\ \A i \in E2EAuthAt :
                  Outcome(i).status = "auth_error" /\ task[i].posts = 1
             /\ { raw[j] : j \in 1 .. Len(raw) } =
                  { << i, 1 >> : i \in Indices \ E2EAuthAt }

C5_Witness ==
  /\ Returned
  /\ IsE2E
  /\ batch_result.successful_iterations = iterations - 2
  /\ batch_result.failed_iterations = 2
  /\ Len(raw_responses(batch_result.iterations)) = iterations - 2

\* C6: a call whose iteration count is above settings.max_iterations ends
\* with ValueError and nothing else happens: no provider is constructed, no
\* BatchResult is created, no gate is installed, no iteration is scheduled
\* and no client or request is made.
C6_ValidationFirst ==
  iterations > max_iterations =>
    /\ rb_pc \in {"entry", "raised"}
    /\ rb_pc = "raised" => rb_error = "ValueError"
    /\ provider = "none"
    /\ batch_result = NoBatchResult
    /\ semaphore = Semaphore(DefaultGate)
    /\ task = << >>
    /\ clientsCreated = 0

C6_Witness ==
  /\ iterations > max_iterations
  /\ rb_pc = "raised"
  /\ rb_error = "ValueError"

InnerRetried == {"http_429", "http_5xx"}

\* C7: inside one generate call a further request follows a failed one iff
\* the failure was a 429 or a 5xx and fewer than 5 requests were made: such
\* a failure before the 5th request leads to a backoff and then to exactly
\* one more request of the same call; a success after k failures returns
\* that response after k + 1 requests; the 5th such failure surfaces that
\* error; an AuthError or a malformed payload surfaces at once.
C7_InnerRetry ==
  [][ \A i \in DOMAIN task :
        /\ (task[i].pc = "requesting" /\ task'[i].pc # "requesting") =>
             LET r == task'[i].last
                 n == task[i].genPosts
             IN  /\ task'[i].pc = "inner_backoff"
                      <=> (r.kind \in InnerRetried /\ n < 5)
                 /\ n <= 5
                 /\ r.kind = "ok" =>
                      /\ task'[i].pc = "resolved"
                      /\ task'[i].result.status = "success"
                      /\ task'[i].result.response = << i, task[i].posts >>
                      /\ n = task'[i].genFails + 1
                 /\ (r.kind \in InnerRetried /\ n = 5) =>
                      /\ task'[i].pc \in {"outer_backoff", "resolved"}
                      /\ task'[i].pc = "resolved" =>
                           task'[i].result.error = MakeRequestRaises(r).cls
                 /\ r.kind \in {"http_auth", "malformed"} =>
                      /\ task'[i].pc = "resolved"
                      /\ task'[i].result.status \in {"auth_error", "failed"}
        /\ (task[i].pc = "inner_backoff" /\ task'[i].pc # "inner_backoff") =>
             /\ task'[i].pc = "requesting"
             /\ task'[i].genPosts = task[i].genPosts + 1
             /\ task'[i].genCalls = task[i].genCalls
        /\ (task[i].genPosts > 0 /\ task'[i].genPosts > task[i].genPosts) =>
             task[i].pc = "inner_backoff"
    ]_vars

C7_Witness ==
  \E i \in DOMAIN task :
    /\ task[i].pc = "resolved"
    /\ task[i].result.status = "success"
    /\ task[i].genCalls = 1
    /\ task[i].genPosts = 5
    /\ task[i].genFails = 4

\* C8: the engine calls generate again iff generate surfaced RateLimited
\* (its 5th request was answered 429) and fewer than 5 calls were made; an
\* iteration never makes more than 25 requests, and one whose every request
\* was rate-limited makes exactly 25 and is recorded rate-limited.
C8_OuterRetry ==
  [][ \A i \in DOMAIN task :
        /\ (task[i].pc = "requesting" /\ task'[i].pc # "requesting") =>
             (task'[i].pc = "outer_backoff"
                <=> /\ task'[i].last.kind = "http_429"
                    /\ task[i].genPosts = 5
                    /\ task[i].genCalls < 5)
        /\ (task[i].genCalls > 0 /\ task'[i].genCalls # task[i].genCalls) =>
             /\ task[i].pc = "outer_backoff"
             /\ task'[i].genCalls = task[i].genCalls + 1
             /\ task'[i].pc = "requesting"
        /\ (task[i].pc = "outer_backoff" /\ task'[i].pc # "outer_backoff") =>
             task'[i].genCalls = task[i].genCalls + 1
        /\ task'[i].posts <= 25
        /\ task'[i].genCalls <= 5
        /\ (task'[i].pc = "resolved" /\ task'[i].only429) =>
             /\ task'[i].posts = 25
             /\ task'[i].result.status = "rate_limited"
    ]_vars

C8_Witness ==
  \E i \in DOMAIN task :
    /\ Settled(i)
    /\ task[i].only429
    /\ task[i].posts = 25
    /\ task[i].genCalls = 5
    /\ task[i].result.status = "rate_limited"

NetworkFailures == {"net_timeout", "net_error"}

\* C9 as stated: a network timeout or connection failure is retried like a
\* server error, so it surfaces only from the 5th request of a generate call.
C9_NetworkRetried ==
  \A i \in DOMAIN task :
    (Settled(i) /\ task[i].last.kind \in NetworkFailures) =>
      task[i].genPosts = 5

\* C9 (amended): a network timeout or connection failure inside generate is
\* not retried by either layer: no backoff follows it, the request that met
\* it is the iteration's last, and the iteration is recorded as timeout or
\* failed with the adapter's generic ProviderError.
C9_NetworkNotRetried ==
  \A i \in DOMAIN task :
    /\ task[i].pc \in {"inner_backoff", "outer_backoff"} =>
         task[i].last.kind \notin NetworkFailures
    /\ (task[i].pc = "requesting" /\ task[i].posts > 1) =>
         task[i].last.kind \notin NetworkFailures
    /\ (Settled(i) /\ task[i].last.kind \in NetworkFailures) =>
         /\ task[i].result.status \in {"timeout", "failed"}
         /\ task[i].result.error = "ProviderError"
         /\ task[i].result.response = NoPayload

C9_Witness ==
  \E i \in DOMAIN task :
    /\ Settled(i)
    /\ task[i].last.kind = "net_timeout"
    /\ task[i].posts = 1
    /\ task[i].sleeps = 0
    /\ task[i].result.status = "timeout"

RECURSIVE SumPosts(_)
SumPosts(S) ==
  IF S = {} THEN 0
  ELSE LET i == CHOOSE x \in S : TRUE
       IN  task[i].posts + SumPosts(S \ {i})

\* C10: when no provider request fails, every iteration makes exactly one
\* request, one generate call and no backoff sleep, the batch makes exactly
\* N requests, and outcome i is the success carrying the answer to that one
\* request: what a single call without any retry logic yields.
C10_NoFailureNoRetry ==
  (Returned /\ faults = 0) =>
    /\ SumPosts(Indices) = iterations
    /\ \A i \in Indices :
         /\ task[i].posts = 1
         /\ task[i].genCalls = 1
         /\ task[i].inner = 1
         /\ task[i].outer = 1
         /\ task[i].sleeps = 0
         /\ Outcome(i).status = "success"
         /\ Outcome(i).response = << i, 1 >>
         /\ Outcome(i).iteration_index = i
         /\ Outcome(i).retry_count = 0

C10_Witness ==
  /\ Returned
  /\ faults = 0
  /\ iterations >= 2
  /\ max_concurrency >= 2

\* the iterations whose task has returned
Completed == { i \in DOMAIN task : task[i].pc = "done" }

\* C11 as stated: the k-th notification of a batch carries completed count
\* k, and every notification carries as successful and failed tallies the
\* numbers of successful and failed iterations completed when it fires.
C11_ProgressCounts ==
  (progress_callback # "none" /\ notifications # << >>) =>
    LET last == notifications[Len(notifications)]
    IN  /\ \A k \in 1 .. Len(notifications) : notifications[k].completed = k
        /\ last.successful =
             Cardinality({ i \in Completed :
                             task[i].result.status = "success" })
        /\ last.failed =
             Cardinality({ i \in Completed :
                             task[i].result.status # "success" })

\* the outcome the except ladder builds for iteration i from the answer to
\* its last request
OutcomeOfAnswers(i) ==
  [SingleIterationResult(i, << i, task[i].posts >>,
                         AttemptRaises(task[i].last))
     EXCEPT !.latency_ms = Elapsed(task[i])]

\* C12: a progress callback that raises changes nothing but the log: with
\* or without a callback the result of every completed iteration is the one
\* built from the provider's answers, every iteration still runs and is
\* notified, run_batch does not raise, and the returned outcomes and counts
\* are those the answers alone determine.
C12_CallbackFailureDropped ==
  /\ \A i \in Completed : task[i].result = OutcomeOfAnswers(i)
  /\ (rb_pc = "raised" => task = << >>)
  /\ progress_callback = "raises" =>
       Len(notifications) = Cardinality(Completed)
  /\ Returned =>
       /\ \A i \in Indices :
            /\ task[i].posts >= 1
            /\ Outcome(i) = OutcomeOfAnswers(i)
       /\ batch_result.successful_iterations =
            Cardinality({ i \in Indices :
                            OutcomeOfAnswers(i).status = "success" })
       /\ batch_result.failed_iterations =
            Cardinality({ i \in Indices :
                            OutcomeOfAnswers(i).status # "success" })

C12_Witness ==
  /\ Returned
  /\ progress_callback = "raises"
  /\ iterations >= 2
  /\ Len(notifications) = iterations
  /\ \E i \in Indices : Outcome(i).status = "success"
  /\ \E i \in Indices : Outcome(i).status \in FailureStatuses

\* iteration i has started its provider invocation
Started(i) == task[i].posts >= 1

\* C13: iterations pass the gate in index order: at every moment of a batch
\* the iterations that have started their provider invocation are an
\* initial segment 0..k of the indices, so for i < j iteration i starts no
\* later than iteration j, whatever N, C and the completion order.
C13_AdmissionInIndexOrder ==
  \A i \in DOMAIN task : \A j \in DOMAIN task :
    (i < j /\ Started(j)) => Started(i)

C13_Witness ==
  \E i \in DOMAIN task : \E k \in DOMAIN task : \E j \in DOMAIN task :
    /\ i < k
    /\ k < j
    /\ j >= max_concurrency
    /\ task[i].pc = "requesting"
    /\ task[k].pc = "done"
    /\ task[j].pc = "requesting"

\* the notification of iteration i has been handed to the callback
Notified(i) ==
  \E n \in 1 .. Len(notifications) : notifications[n].completed = i + 1

\* C14: with a progress callback configured, a task returns its result only
\* after its own notification has fired, and when outcome k is entered in
\* the BatchResult (the loop after gather) the notifications of all indices
\* <= k have fired, in whatever order the iterations completed.
C14_NotifiedBeforeFinal ==
  progress_callback # "none" =>
    /\ \A k \in Completed : Notified(k)
    /\ \A k \in 0 .. (Len(batch_result.iterations) - 1) :
         \A i \in 0 .. k : Notified(i)

C14_Witness ==
  /\ rb_pc = "collected"
  /\ progress_callback # "none"
  /\ OutOfOrderCompletion
  /\ Len(batch_result.iterations) = MaxIterations
  /\ Len(notifications) = MaxIterations

LeftProviderScope ==
  \/ rb_pc \in {"collected", "returned"}
  \/ rb_pc = "raised" /\ rb_error = "CancelledError"

\* C15: in one run_batch the client handle does not exist before the first
\* request, is created at most once, is open (and therefore the same one)
\* for every invocation in flight, is not closed while an invocation is in
\* flight, and is closed and reset once run_batch has left the provider
\* scope, by returning or by an error raised through the scope.
C15_ClientLifecycle ==
  /\ clientsCreated <= 1
  /\ clientsClosed <= clientsCreated
  /\ (\A i \in DOMAIN task : task[i].posts = 0) =>
       (client = "none" /\ clientsCreated = 0)
  /\ (\E i \in DOMAIN task : task[i].posts > 0) => clientsCreated = 1
  /\ InFlight # {} => (client = "open" /\ clientsClosed = 0)
  /\ LeftProviderScope =>
       /\ client = "none"
       /\ clientsClosed = clientsCreated

C15_Witness ==
  /\ rb_pc = "raised"
  /\ rb_error = "CancelledError"
  /\ clientsCreated = 1
  /\ clientsClosed = 1
  /\ \E i \in DOMAIN task : task[i].pc = "done"
  /\ \E i \in DOMAIN task :
       /\ task[i].pc = "cancelled"
       /\ task[i].posts >= 2
  /\ \E i \in DOMAIN task :
       /\ task[i].pc = "cancelled"
       /\ task[i].posts = 0

Analyzed == analysis_result.type = "AnalysisResult"

\* analyze_batch returned metrics computed from at least one response
Measured == Analyzed /\ analysis_result.total_responses > 0

\* c and d are the same character up to the case of a letter
SameLetter(c, d) ==
  \/ c = d
  \/ \E k \in 1 .. Len(UpperCase) :
       {c, d} = {UpperCase[k], LowerCase[k]}

\* brand occurs in text at offset p as a whole token: letter for letter up
\* to case, with no word character next to an edge of the brand that is
\* itself a word character
OccursAt(brand, text, p) ==
  LET n == Len(brand)
  IN  /\ p + n <= Len(text)
      /\ \A k \in 1 .. n : SameLetter(text[p + k], brand[k])
      /\ IsWordChar(brand[1]) => (p = 0 \/ ~IsWordChar(text[p]))
      /\ IsWordChar(brand[n]) =>
           (p + n = Len(text) \/ ~IsWordChar(text[p + n + 1]))

Occurrences(brand, text) ==
  { p \in 0 .. Len(text) : OccursAt(brand, text, p) }

\* the responses in which the brand occurs as a whole token
Mentioning(brand) ==
  { r \in 1 .. Len(response_texts) :
      Occurrences(brand, response_texts[r]) # {} }

\* the analysis ran brand against text alone
Alone(brand, text) ==
  target_brands = << brand >> /\ response_texts = << text >>

\* C16: visibility matching is case-insensitive whole-token matching with
\* the boundary required only on a side where the brand's edge character
\* is a word character: for every analyzed brand, the responses counted as
\* having the brand are exactly those in which it occurs that way, a
\* response has the brand iff its match count is at least 1, and the first
\* recorded offset of a lone response is its first such occurrence.  "Acme"
\* is found in "I recommend Acme." and "ACME is great", not in "Academic"
\* or "Acmerch", and "Yahoo!" is found in "Yahoo! is cool.".
C16_WholeTokenMatching ==
  Measured =>
    /\ \A k \in 1 .. Len(target_brands) :
         LET brand == target_brands[k]
             vm == all_visibility[k]
         IN  /\ vm.brand = brand
             /\ vm.visibility_rate =
                  Div(Cardinality(Mentioning(brand)), Len(response_texts))
             /\ vm.mention_count >= Cardinality(Mentioning(brand))
             /\ (vm.mention_count >= 1) <=> (Mentioning(brand) # {})
             /\ \A r \in 1 .. Len(response_texts) :
                  LET found == FindIter(VisibilityPattern(brand),
                                        response_texts[r], 0)
                  IN  /\ (Len(found) >= 1) <=> (r \in Mentioning(brand))
                      /\ \A m \in 1 .. Len(found) :
                           found[m] \in Occurrences(brand, response_texts[r])
             /\ (Len(response_texts) = 1 /\ Mentioning(brand) # {}) =>
                  \E p \in Occurrences(brand, response_texts[1]) :
                    /\ vm.avg_position = Div(p, 1)
                    /\ \A q \in Occurrences(brand, response_texts[1]) : p <= q
    /\ Alone(Acme, IRecommendAcme) =>
         /\ all_visibility[1].mention_count = 1
         /\ all_visibility[1].avg_position = Div(12, 1)
    /\ Alone(Acme, ACMEIsGreat) => all_visibility[1].mention_count = 1
    /\ Alone(Acme, Academic) => all_visibility[1].mention_count = 0
    /\ Alone(Acme, Acmerch) => all_visibility[1].mention_count = 0
    /\ Alone(Yahoo, YahooIsCool) => all_visibility[1].mention_count = 1

C16_Witness ==
  /\ Measured
  /\ target_brands = << Yahoo >>
  /\ response_texts = << YahooIsCool >>
  /\ all_visibility[1].mention_count = 1
  /\ all_visibility[1].visibility_rate = Div(1, 1)
  /\ all_visibility[1].avg_position = Div(0, 1)

\* the offsets at which brand k is found in response r by the matching
\* rule of the visibility count
VisibleAt(k, r) ==
  FindIter(VisibilityPattern(target_brands[k]), response_texts[r], 0)

\* the brand response r credits with the first mention
Credited(r) == FirstBrand(response_texts[r], target_brands)

\* C17 as stated: every response in which some brand is visible credits
\* exactly one brand, a brand whose first match under the visibility rule
\* has the lowest offset; a response in which no brand is visible credits
\* none; and each first-mention rate is the brand's credited count over the
\* number of responses.
C17_FirstMentionAttribution ==
  Measured =>
    /\ \A r \in 1 .. Len(response_texts) :
         LET visible == { k \in 1 .. Len(target_brands) :
                            VisibleAt(k, r) # << >> }
         IN  /\ (visible = {}) <=> (Credited(r) = NoBrand)
             /\ visible # {} =>
                  \E k \in visible :
                    /\ target_brands[k] = Credited(r)
                    /\ \A l \in visible :
                         VisibleAt(k, r)[1] <= VisibleAt(l, r)[1]
    /\ \A k \in 1 .. Len(target_brands) :
         all_visibility[k].first_mention_rate =
           Div(Cardinality({ r \in 1 .. Len(response_texts) :
                               Credited(r) = target_brands[k] }),
               Len(response_texts))

Abs(n) == IF n < 0 THEN 0 - n ELSE n

RECURSIVE Pow2(_)
Pow2(n) == IF n = 0 THEN 1 ELSE 2 * Pow2(n - 1)

\* the rearrangements of the positions 1..n
Rearrangements(n) ==
  { f \in [1 .. n -> 1 .. n] : \A i, j \in 1 .. n : f[i] = f[j] => i = j }

SovShares == analysis_result.share_of_voice

\* the share floats sum to exactly 1: with E the largest exponent, the
\* rounding errors scaled to the common denominator total * 2^E cancel
RECURSIVE LargestExp(_)
LargestExp(shares) ==
  IF shares = << >> THEN 0
  ELSE LET rest == LargestExp(Tail(shares))
           own == Rounding(Head(shares).share.num,
                           Head(shares).share.den).exp
       IN  IF own >= rest THEN own ELSE rest

RECURSIVE ScaledErrors(_, _)
ScaledErrors(shares, E) ==
  IF shares = << >> THEN 0
  ELSE LET ro == Rounding(Head(shares).share.num, Head(shares).share.den)
       IN  ro.err * Pow2(E - ro.exp) + ScaledErrors(Tail(shares), E)

\* what C18 and its amended form share: one share per analyzed brand; with
\* no mention at all every share is 0; otherwise every share is the float
\* count / total of its brand, within [0, 1]
SharesAreRatios ==
  LET total == TotalMentions(all_visibility)
      B == Len(target_brands)
  IN  /\ Len(SovShares) = B
      /\ total = 0 => \A i \in 1 .. B : SovShares[i].share = Float(0)
      /\ total > 0 =>
           \E f \in Rearrangements(B) :
             \A i \in 1 .. B :
               LET vm == all_visibility[f[i]]
               IN  /\ SovShares[i].brand = vm.brand
                   /\ SovShares[i].share = Div(vm.mention_count, total)
                   /\ 0 <= vm.mention_count
                   /\ vm.mention_count <= total

\* C18 as stated: the shares are count / total, within [0, 1], all 0 when
\* nothing is mentioned, and otherwise they sum to 1.
C18_SharesSumToOne ==
  Measured =>
    /\ SharesAreRatios
    /\ TotalMentions(all_visibility) > 0 =>
         ScaledErrors(SovShares, LargestExp(SovShares)) = 0

\* C18 (amended): the shares are the floats count / total, within [0, 1],
\* and all 0 when nothing is mentioned; otherwise the exact ratios sum to 1
\* and every share is the float nearest to its ratio, off by at most half a
\* unit of its last place (2^-54 at most), so that the shares sum to 1 up
\* to B * 2^-54.
C18_SharesSumToOneRounded ==
  Measured =>
    /\ SharesAreRatios
    /\ TotalMentions(all_visibility) > 0 =>
         /\ SumSeq([i \in 1 .. Len(SovShares) |-> SovShares[i].share.num])
              = TotalMentions(all_visibility)
         /\ \A i \in 1 .. Len(SovShares) :
              LET sh == SovShares[i].share
                  ro == Rounding(sh.num, sh.den)
              IN  /\ sh.den = TotalMentions(all_visibility)
                  /\ 2 * Abs(ro.err) <= sh.den
                  /\ ro.exp >= SignificandBits
                  /\ (sh.num = 0 \/ sh.num = sh.den) => ro.err = 0

C18_Witness ==
  /\ Measured
  /\ Len(target_brands) = 3
  /\ TotalMentions(all_visibility) = 7
  /\ \A i \in 1 .. 3 : SovShares[i].share.num > 0
  /\ ScaledErrors(SovShares, LargestExp(SovShares)) # 0

\* C19: the share-of-voice list gives the B analyzed brands the ranks 1..B,
\* each once, in list order; the brands appear by descending mention count
\* and brands with equal counts in the order of the input list, also when
\* no brand is mentioned at all.
C19_RanksContiguousStable ==
  Measured =>
    LET B == Len(target_brands)
        count(k) == all_visibility[k].mention_count
    IN  /\ Len(SovShares) = B
        /\ { SovShares[i].rank : i \in 1 .. B } = 1 .. B
        /\ \A i \in 1 .. B : SovShares[i].rank = i
        /\ \E f \in Rearrangements(B) :
             /\ \A i \in 1 .. B : SovShares[i].brand = target_brands[f[i]]
             /\ \A i \in 1 .. B : \A j \in 1 .. B :
                  i < j =>
                    \/ count(f[i]) > count(f[j])
                    \/ count(f[i]) = count(f[j]) /\ f[i] < f[j]

C19_Witness ==
  /\ Measured
  /\ Len(target_brands) = 3
  /\ all_visibility[1].mention_count = 1
  /\ all_visibility[2].mention_count = 2
  /\ all_visibility[3].mention_count = 2
  /\ SovShares[1] = ShareOfVoice(BrandName(2), Div(2, 5), 1)
  /\ SovShares[2] = ShareOfVoice(BrandName(3), Div(2, 5), 2)
  /\ SovShares[3] = ShareOfVoice(BrandName(1), Div(1, 5), 3)

Consistency == analysis_result.consistency

\* C20 as stated: an analysis of zero or one successful response reports
\* similarity 100.0 (average, minimum, maximum) and consistency score 1.0.
C20_FewResponsesMaximal ==
  (Analyzed /\ Len(response_texts) < 2) =>
    /\ Consistency.avg_similarity = Float(100)
    /\ Consistency.min_similarity = Float(100)
    /\ Consistency.max_similarity = Float(100)
    /\ Consistency.consistency_score = Float(1)

\* C20 (amended): an analysis of exactly one successful response reports
\* similarity 100.0 (average, minimum, maximum), standard deviation 0.0 and
\* consistency score 1.0; an analysis of zero successful responses is the
\* empty result, whose similarities and consistency score are all 0.0,
\* although _compute_consistency on its own yields 100.0 and 1.0 for an
\* empty list as well.
C20_OneResponseMaximal ==
  Analyzed =>
    /\ Len(response_texts) = 1 =>
         /\ analysis_result.total_responses = 1
         /\ Consistency.avg_similarity = Float(100)
         /\ Consistency.min_similarity = Float(100)
         /\ Consistency.max_similarity = Float(100)
         /\ Consistency.std_deviation = Float(0)
         /\ Consistency.consistency_score = Float(1)
    /\ Len(response_texts) = 0 =>
         /\ analysis_result = _empty_result
         /\ Consistency.avg_similarity = Float(0)
         /\ Consistency.min_similarity = Float(0)
         /\ Consistency.max_similarity = Float(0)
         /\ Consistency.consistency_score = Float(0)
    /\ Len(response_texts) < 2 =>
         /\ _compute_consistency(response_texts, << >>).avg_similarity
              = Float(100)
         /\ _compute_consistency(response_texts, << >>).consistency_score
              = Float(1)

C20_Witness ==
  /\ Measured
  /\ Len(response_texts) = 1
  /\ Len(target_brands) = 2
  /\ analysis_result.target_visibility.mention_count >= 1
  /\ Consistency = ConsistencyMetrics(Float(100), Float(100), Float(100),
                                      Float(0), Float(1))

\* C21: an analysis of a batch with no successful response returns, and
\* what it returns has total_responses 0, no target visibility, empty
\* competitor and share-of-voice lists, every consistency figure 0.0, no
\* hallucination metrics, and the entries total_responses 0 and error "No
\* successful responses" in the metrics map, for every brand list,
\* provider and whitelist.
C21_EmptyBatchSentinel ==
  /\ (analysis_result = NoAnalysis /\ target_brands # << >>
        /\ response_texts = << >>) => ENABLED AnalyzeBatch
  /\ (Analyzed /\ response_texts = << >>) =>
       /\ analysis_result.total_responses = 0
       /\ analysis_result.target_visibility = None
       /\ analysis_result.competitor_visibility = << >>
       /\ analysis_result.share_of_voice = << >>
       /\ \A f \in DOMAIN analysis_result.consistency :
            analysis_result.consistency[f] = Float(0)
       /\ analysis_result.hallucination = None
       /\ analysis_result.raw_metrics.total_responses = 0
       /\ analysis_result.raw_metrics.error = "No successful responses"
       /\ all_visibility = << >>

C21_Witness ==
  /\ Analyzed
  /\ response_texts = << >>
  /\ Len(target_brands) = 2
  /\ llm_provider = Perplexity
  /\ domain_whitelist.given
  /\ Len(domain_whitelist.domains) = 2
  /\ analysis_result.hallucination = None
  /\ analysis_result.raw_metrics.total_responses = 0

\* the pairs compared are distinct pairs (i, j), i < j, of responses
DistinctPairs ==
  /\ \A k \in DOMAIN compared :
       /\ compared[k][1] \in 1 .. Len(response_texts)
       /\ compared[k][2] \in 1 .. Len(response_texts)
       /\ compared[k][1] < compared[k][2]
  /\ Cardinality({ compared[k] : k \in DOMAIN compared }) = Len(compared)

InPlausibleRange(x) == AtMost(Float(0), x) /\ AtMost(x, Float(100))

\* C22 as stated: an analysis of 50 responses compares every one of their
\* 1225 pairs, an analysis of 200 responses compares exactly 1000 distinct
\* pairs, and in both the average, minimum and maximum similarity lie in
\* [0, 100].
C22_ScaleGuard ==
  (Analyzed /\ Len(response_texts) \in {50, 200}) =>
    /\ DistinctPairs
    /\ Len(response_texts) = 50 => Len(compared) = 1225
    /\ Len(response_texts) = 200 => Len(compared) = 1000
    /\ InPlausibleRange(Consistency.avg_similarity)
    /\ InPlausibleRange(Consistency.min_similarity)
    /\ InPlausibleRange(Consistency.max_similarity)

Hallucination == analysis_result.hallucination

\* two texts are equal up to the case of their letters
EqualsIgnoringCase(x, y) ==
  /\ Len(x) = Len(y)
  /\ \A k \in 1 .. Len(x) : SameLetter(x[k], y[k])

\* the host of a URL: what follows the first "://", if there is one, up to
\* the next "/"
HostOf(url) ==
  LET seps == { p \in 0 .. Len(url) - 3 :
                  url[p + 1] = ":" /\ url[p + 2] = "/" /\ url[p + 3] = "/" }
      from == IF seps = {} THEN 0
              ELSE 3 + CHOOSE p \in seps : \A q \in seps : p <= q
      slashes == { q \in from + 1 .. Len(url) : url[q] = "/" }
      to == IF slashes = {} THEN Len(url)
            ELSE (CHOOSE q \in slashes : \A r \in slashes : q <= r) - 1
  IN  SubSeq(url, from + 1, to)

\* a whitelist entry without the blanks around it
Trimmed(entry) ==
  LET inner == { k \in 1 .. Len(entry) : entry[k] \notin Whitespace }
  IN  IF inner = {} THEN << >>
      ELSE SubSeq(entry,
                  CHOOSE k \in inner : \A l \in inner : k <= l,
                  CHOOSE k \in inner : \A l \in inner : l <= k)

\* the host is the domain or a strict subdomain of it
WithinDomain(host, domain) ==
  \/ EqualsIgnoringCase(host, domain)
  \/ /\ Len(host) > Len(domain)
     /\ host[Len(host) - Len(domain)] = "."
     /\ EqualsIgnoringCase(
          SubSeq(host, Len(host) - Len(domain) + 1, Len(host)), domain)

Trusted(url) ==
  \E k \in 1 .. Len(domain_whitelist.domains) :
    WithinDomain(HostOf(url), Trimmed(domain_whitelist.domains[k]))

\* the positions <<r, c>> of the citation URLs of the responses
CitedAt ==
  { rc \in (1 .. Len(citations)) \X (1 .. MaxCitations + 1) :
      rc[2] <= Len(citations[rc[1]]) /\ citations[rc[1]][rc[2]] # << >> }

\* C23: when hallucination metrics are computed, every non-empty citation
\* URL of a successful response is counted once, and it is counted valid
\* iff its host (the URL without scheme and path) equals a whitelisted
\* domain or ends with "." followed by one, up to the case of letters and
\* to blanks around the whitelist entry; the invalid ones are the flagged
\* ones, in order; the rate is invalid count over total count, and 0.0
\* with no citation.  Hosts a.example.com and b.com against the whitelist
\* example.com give one valid, one invalid and the rate 1/2.
C23_CitationValidity ==
  (Analyzed /\ Hallucination # None) =>
    LET trusted == { rc \in CitedAt : Trusted(citations[rc[1]][rc[2]]) }
        flagged == Hallucination.flagged_urls
    IN  /\ Hallucination.total_citations = Cardinality(CitedAt)
        /\ Hallucination.valid_citations = Cardinality(trusted)
        /\ Hallucination.invalid_citations = Cardinality(CitedAt \ trusted)
        /\ Len(flagged) = Cardinality(CitedAt \ trusted)
        /\ \A k \in 1 .. Len(flagged) : ~Trusted(flagged[k])
        /\ Hallucination.hallucination_rate =
             IF CitedAt = {} THEN Float(0)
             ELSE Div(Cardinality(CitedAt \ trusted), Cardinality(CitedAt))
        /\ (domain_whitelist.domains = << ExampleCom >>
             /\ { citations[rc[1]][rc[2]] : rc \in CitedAt }
                  = { UrlAExampleCom, UrlBCom }) =>
               /\ Hallucination.valid_citations = 1
               /\ Hallucination.invalid_citations = 1
               /\ Hallucination.hallucination_rate = Div(1, 2)
               /\ flagged = << UrlBCom >>

C23_Witness ==
  /\ Analyzed
  /\ Hallucination # None
  /\ domain_whitelist.domains = << << "b", ".", "c" >> >>
  /\ citations = << << Http \o << "a", "b", ".", "c" >>,
                       Http \o << "a", ".", "b", ".", "c", "/", "x" >> >> >>
  /\ Hallucination.total_citations = 2
  /\ Hallucination.valid_citations = 1
  /\ Hallucination.flagged_urls = << Http \o << "a", "b", ".", "c" >> >>

\* the quota was charged for the request
Charged == ~request.testing_mode /\ ~request.unlimited_prompts

\* the request is over and ended 503, which only a failed enqueue does
EnqueueFailed == request.pc = "done" /\ request.status_code = 503

\* C24 as stated: a request whose enqueue failed after the quota was
\* charged ends with 503, leaves prompts_used_this_month at its value
\* before the request, and leaves the experiment marked FAILED.
C24_EnqueueFailureRollback ==
  /\ (request.pc \in {"refunding", "marking"}) => request.status_code = 0
  /\ (EnqueueFailed /\ Charged) =>
       /\ database.prompts_used_this_month = request.before
       /\ database.experiment.status = "failed"

\* the iterations whose IterationResult _run_single_iteration has built
Recorded ==
  { i \in DOMAIN task :
      Settled(i) /\ task[i].result.type = "IterationResult" }

\* C25 as stated: the latency of an iteration covers its requests and the
\* backoff sleeps between them, and none of the time the iteration spent
\* waiting to be admitted by the gate.
C25_LatencyFromInvocation ==
  \A i \in Recorded :
    /\ task[i].result.latency_ms.requests = task[i].posts
    /\ task[i].result.latency_ms.sleeps = task[i].sleeps
    /\ task[i].result.latency_ms.gate = 0

\* every iteration of the call has an outcome with a final status
AllResolved ==
  /\ Len(batch_result.iterations) = iterations
  /\ \A i \in Indices :
       Outcome(i).status \in {"success"} \cup FailureStatuses

\* every slot of the gate run_batch installed is back
GateReleased ==
  /\ semaphore.value = max_concurrency
  /\ semaphore.waiters = << >>
  /\ semaphore.woken = {}

\* a call that passes validation and gets its provider
Accepted == ~ExceedsCeiling(iterations, max_iterations) /\ api_key

\* C26: when every provider request is answered and every backoff sleep
\* ends, a run_batch call that is accepted eventually returns, with an
\* outcome for each of its N iterations and every slot of the gate
\* released, for every N, every max_concurrency and every failure pattern
\* explored.
C26_BatchReturns ==
  (rb_pc = "entry" /\ Accepted) ~> (Returned /\ AllResolved /\ GateReleased)

C26_Witness ==
  /\ Returned
  /\ AllResolved
  /\ GateReleased
  /\ \E i \in Indices : task[i].gateWaits > 0
  /\ \E i \in Indices : task[i].sleeps > 0
  /\ \E i \in Indices : Outcome(i).status \in FailureStatuses

\* the iterations of call c that hold a slot: admitted and not yet out of
\* the `async with`
InFlightOf(c) ==
  { j \in JobsOf(c) : jobs[j].pc \in {"requesting", "answered"} }

\* C27 as stated: while two run_batch calls on one RunnerBuilder overlap,
\* the iterations of each call that are in flight never outnumber that
\* call's own max_concurrency.
C27_OwnLimitPerBatch ==
  \A c \in DOMAIN calls :
    Cardinality(InFlightOf(c)) <= calls[c].max_concurrency

\* the retries of _execute_with_retry: its attempts after the first
OuterRetries(i) == task[i].outer - 1

\* C28 as stated: the retry_count of an outcome is the number of retries
\* _execute_with_retry performed for the iteration: 0 when its first
\* attempt resolved it, k after k rate-limited attempts that were retried.
C28_RetryCountRecorded ==
  \A i \in Recorded : task[i].result.retry_count = OuterRetries(i)

\* C29 as stated: an outcome is a timeout exactly when the iteration's last
\* request failed through a network timeout; a server error, another
\* non-2xx answer or a connection failure is recorded as failed, whatever
\* the upstream put in its error text.
C29_TimeoutIffNetworkTimeout ==
  \A i \in Recorded :
    /\ task[i].result.status = "timeout" <=> task[i].last.kind = "net_timeout"
    /\ task[i].last.kind \in {"http_5xx", "http_other", "net_error"} =>
         task[i].result.status = "failed"

\* the counter after the request that queued the task
CounterWhenQueued ==
  request.before + (IF Charged THEN request.iterations ELSE 0)

\* C30 as stated: a task that failed after it had loaded the experiment
\* leaves the experiment FAILED with an error message and the user's
\* prompts_used_this_month reduced by the experiment's iteration count,
\* but not below 0.
C30_WorkerFailureRefund ==
  (worker.pc = "failed" /\ worker.user_id) =>
    /\ database.experiment.status = "failed"
    /\ database.experiment.error_message # "none"
    /\ database.prompts_used_this_month =
         Max(0, CounterWhenQueued - worker.iterations_count)

TypeOK ==
  /\ rb_pc \in {"entry", "validated", "provider_ready", "gathering",
                "collected", "returned", "raised", "cancelling"}
  /\ semaphore.value >= 0

====
